---- MODULE Spec2Model ----
(***************************************************************************)
(* A model of the aerospace-ipc client: the socket transport               *)
(* (AeroSpaceSocketConnection: SendCommand, CloseConnection,               *)
(* GetServerVersion, CheckServerVersion), the daemon and the stream        *)
(* between them, and the workspace command builders that sit on top of     *)
(* the transport.                                                          *)
(*                                                                         *)
(* Strings that the code takes apart (the server version) are sequences    *)
(* of one-character strings; strings the code only compares or forwards    *)
(* are TLA+ strings.  The bytes of the stream are kept as segments         *)
(* [id, lo, hi, len, env]: bytes lo..hi of the daemon's id-th reply, a     *)
(* JSON document of len bytes that encodes env.                            *)
(***************************************************************************)
EXTENDS Integers, Sequences, FiniteSets, TLC

\* ------------------------------------------------------------------ bounds

\* goroutines sharing the one connection
NumGoroutines == 2
\* calls each goroutine makes when several share the connection
MaxCalls == 2
\* calls the one goroutine makes when it has the connection to itself
MaxSeqCalls == 2
\* version checks the one goroutine makes
MaxVersionCalls == 1
\* calls the one goroutine makes of the builders
MaxBuilderCalls == 1
\* connections the one goroutine makes through the connector
MaxConnectCalls == 1
\* calls the one goroutine makes of SetDefaultConnector and GetDefaultConnector
MaxConnectorCalls == 5
\* deliveries the daemon may split one reply into
MaxChunks == 3

Goroutines == 1..NumGoroutines

\* ------------------------------------------------------- program constants

\* buf := make([]byte, 4096)
BufSize == 4096

\* ---------------------------------------------------------------- strings

Digits == {"0", "1", "2", "3", "4", "5", "6", "7", "8", "9"}

DigitVal(ch) ==
    CASE ch = "0" -> 0 [] ch = "1" -> 1 [] ch = "2" -> 2 [] ch = "3" -> 3
      [] ch = "4" -> 4 [] ch = "5" -> 5 [] ch = "6" -> 6 [] ch = "7" -> 7
      [] ch = "8" -> 8 [] ch = "9" -> 9

\* index of the first occurrence of the character sep in s from position i on,
\* or 0 when there is none
RECURSIVE IndexFrom(_, _, _)
IndexFrom(s, sep, i) ==
    IF i > Len(s) THEN 0
    ELSE IF s[i] = sep THEN i
    ELSE IndexFrom(s, sep, i + 1)

\* strings.Split(s, sep) for a one-character separator: always at least one
\* part; a string without the separator is returned whole
RECURSIVE Split(_, _)
Split(s, sep) ==
    LET i == IndexFrom(s, sep, 1)
    IN  IF i = 0 THEN <<s>>
        ELSE <<SubSeq(s, 1, i - 1)>> \o Split(SubSeq(s, i + 1, Len(s)), sep)

\* strings.Join(parts, sep)
RECURSIVE Join(_, _)
Join(parts, sep) ==
    IF Len(parts) = 0 THEN <<>>
    ELSE IF Len(parts) = 1 THEN parts[1]
    ELSE parts[1] \o <<sep>> \o Join(Tail(parts), sep)

RECURSIVE DigitsValue(_, _)
DigitsValue(s, acc) ==
    IF Len(s) = 0 THEN acc
    ELSE DigitsValue(Tail(s), acc * 10 + DigitVal(Head(s)))

\* strconv.Atoi: an optional sign and then one or more decimal digits;
\* anything else is an error
Atoi(s) ==
    LET signed == Len(s) > 0 /\ Head(s) \in {"+", "-"}
        body   == IF signed THEN Tail(s) ELSE s
    IN  IF Len(body) = 0 \/ \E i \in 1..Len(body) : body[i] \notin Digits
        THEN [ok |-> FALSE, val |-> 0]
        ELSE [ok |-> TRUE,
              val |-> IF signed /\ Head(s) = "-"
                      THEN 0 - DigitsValue(body, 0)
                      ELSE DigitsValue(body, 0)]

\* ----------------------------------------------------------------- errors

\* A Go error: the messages of its wrap chain from the outside in, and what
\* the formatted text embeds.  mismatch marks an *ErrVersionMismatch, the only
\* error for which errors.Is(err, ErrVersion) holds.
NilErr ==
    [isNil |-> TRUE, msgs |-> <<>>, exitCode |-> 0, text |-> "", data |-> <<>>,
     mismatch |-> FALSE, major |-> 0, minor |-> 0, current |-> <<>>]

NewError(msg) == [NilErr EXCEPT !.isNil = FALSE, !.msgs = <<msg>>]

\* fmt.Errorf("<msg>\n%w", err)
Wrap(msg, err) == [err EXCEPT !.msgs = <<msg>> \o @]

Contains(err, msg) == \E i \in 1..Len(err.msgs) : err.msgs[i] = msg

\* exceptions.NewErrVersionMismatch(major, minor, currentVersion)
NewErrVersionMismatch(major, minor, currentVersion) ==
    [NilErr EXCEPT !.isNil = FALSE,
                   !.msgs = <<"Server version does not match the minimum required version">>,
                   !.mismatch = TRUE,
                   !.major = major, !.minor = minor, !.current = currentVersion]

\* errors.Is(err, exceptions.ErrVersion)
IsErrVersion(err) == ~err.isNil /\ err.mismatch

\* ------------------------------------------------------------- the stream

\* number of bytes in a sequence of segments
RECURSIVE Size(_)
Size(segs) ==
    IF Len(segs) = 0 THEN 0
    ELSE (Head(segs).hi - Head(segs).lo + 1) + Size(Tail(segs))

\* one segment appended to a byte sequence; bytes that continue the last
\* segment extend it
AppendSeg(data, seg) ==
    IF /\ Len(data) > 0
       /\ data[Len(data)].id = seg.id
       /\ data[Len(data)].hi + 1 = seg.lo
    THEN [data EXCEPT ![Len(data)].hi = seg.hi]
    ELSE Append(data, seg)

\* append(responseData, buf[:n]...)
RECURSIVE AppendBytes(_, _)
AppendBytes(data, segs) ==
    IF Len(segs) = 0 THEN data
    ELSE AppendBytes(AppendSeg(data, Head(segs)), Tail(segs))

\* the first n bytes of a byte sequence (n <= Size(segs))
RECURSIVE TakeBytes(_, _)
TakeBytes(segs, n) ==
    IF n = 0 \/ Len(segs) = 0 THEN <<>>
    ELSE LET h == Head(segs)
             k == h.hi - h.lo + 1
         IN  IF k <= n THEN <<h>> \o TakeBytes(Tail(segs), n - k)
             ELSE <<[h EXCEPT !.hi = h.lo + n - 1]>>

\* what is left of a byte sequence after its first n bytes
RECURSIVE DropBytes(_, _)
DropBytes(segs, n) ==
    IF n = 0 \/ Len(segs) = 0 THEN segs
    ELSE LET h == Head(segs)
             k == h.hi - h.lo + 1
         IN  IF k <= n THEN DropBytes(Tail(segs), n - k)
             ELSE <<[h EXCEPT !.lo = h.lo + n]>> \o Tail(segs)

Min(a, b) == IF a < b THEN a ELSE b

\* ------------------------------------------------------------- the daemon

\* bytes that are no JSON document
Garbage ==
    [json |-> FALSE, serverVersionAndHash |-> <<>>, stderr |-> "",
     stdout |-> "", exitCode |-> 0]

\* a response envelope
Envelope(v, e, o, x) ==
    [json |-> TRUE, serverVersionAndHash |-> v, stderr |-> e, stdout |-> o,
     exitCode |-> x]

\* what the daemon answers with: <<is JSON, stderr, exit code>>
OkOnly     == {<<TRUE, "", 0>>}
OkOrFail   == {<<TRUE, "", 0>>, <<TRUE, "boom", 1>>}
AnyOutcome == {<<TRUE, "", 0>>, <<TRUE, "boom", 0>>, <<TRUE, "", 1>>,
               <<TRUE, "boom", 1>>, <<FALSE, "", 0>>}

\* the reply of the daemon with outcome o and version string v
Reply(v, o) ==
    IF o[1] THEN Envelope(v, o[2], IF Len(o) > 3 THEN o[4] ELSE "out", o[3])
    ELSE Garbage

\* the outcomes of a query: <<is JSON, stderr, exit code, stdout>>
QueryOutcomes ==
    {<<TRUE, "", 0, "[]">>, <<TRUE, "", 0, "null">>, <<TRUE, "", 0, "[{1}]">>,
     <<TRUE, "", 0, "[{1},{2}]">>, <<TRUE, "", 0, "[{2},{1}]">>,
     <<TRUE, "", 0, "out">>, <<TRUE, "boom", 1, "[{1}]">>, <<FALSE, "", 0, "">>}

\* lengths of the encoded replies: below, equal to and above one read buffer
ResponseLens == {120, BufSize, BufSize + 904}
ShortLens    == {120}
ShortAndLong == {120, BufSize + 904}

\* sizes of the deliveries that do not complete a reply: less than a read
\* buffer, and a whole one
ChunkSizes == {60, BufSize}
FullChunks == {BufSize}
NoChunks   == {}

\* version strings as the daemon formats them
V_0_20 == <<"0", ".", "2", "0", ".", "0", "-", "b", "e", "t", "a", " ", "x">>
V_1_0 == <<"1", ".", "0", ".", "0">>
OneVersion  == {V_0_20}
TwoVersions == {V_0_20, V_1_0}

\* ------------------------------------------- the transport: pure parts

\* a nil *Response
NilResp ==
    [isNil |-> TRUE, ServerVersion |-> <<>>, StdErr |-> "", StdOut |-> "",
     ExitCode |-> 0]

\* the Response struct and its JSON tags
Response(env) ==
    [isNil |-> FALSE,
     ServerVersion |-> env.serverVersionAndHash,
     StdErr |-> env.stderr,
     StdOut |-> env.stdout,
     ExitCode |-> env.exitCode]

\* json.Unmarshal(responseData, &response): the bytes must be exactly one
\* complete JSON document; a truncated document, an empty buffer, bytes of
\* two replies and bytes that are no JSON all fail
Unmarshal(data) ==
    IF /\ Len(data) = 1
       /\ data[1].lo = 1
       /\ data[1].hi = data[1].len
       /\ data[1].env.json
    THEN [ok |-> TRUE, response |-> Response(data[1].env)]
    ELSE [ok |-> FALSE, response |-> NilResp]

\* the policy without the stderr check
CheckResponse_ExitCodeOnly(response) ==
    IF response.ExitCode # 0
    THEN [resp |-> NilResp,
          err |-> [NewError("command failed with exit code")
                       EXCEPT !.exitCode = response.ExitCode,
                              !.text = response.StdErr]]
    ELSE [resp |-> response, err |-> NilErr]

\* the policy with the stderr check made first
CheckResponse_StderrFirst(response) ==
    IF response.StdErr # ""
    THEN [resp |-> NilResp,
          err |-> [NewError("command error") EXCEPT !.text = response.StdErr]]
    ELSE IF response.ExitCode # 0
    THEN [resp |-> NilResp,
          err |-> [NewError("command failed with exit code")
                       EXCEPT !.exitCode = response.ExitCode,
                              !.text = response.StdErr]]
    ELSE [resp |-> response, err |-> NilErr]

\* the protocol-failure policy applied to a decoded response
CheckResponse(response) ==
    IF response.ExitCode # 0
    THEN [resp |-> NilResp,
          err |-> [NewError("command failed with exit code")
                       EXCEPT !.exitCode = response.ExitCode,
                              !.text = response.StdErr]]
    ELSE IF response.StdErr # ""
    THEN [resp |-> NilResp,
          err |-> [NewError("command error") EXCEPT !.text = response.StdErr]]
    ELSE [resp |-> response, err |-> NilErr]

\* SendCommand after its read loop: decode, then check
DecodeResponse(data) ==
    LET u == Unmarshal(data)
    IN  IF ~u.ok
        THEN [resp |-> NilResp,
              err |-> [Wrap("failed to unmarshal socket response",
                            NewError("json: cannot decode"))
                           EXCEPT !.data = data]]
        ELSE CheckResponse(u.response)

\* GetServerVersion after SendCommand has returned sc
GetServerVersionTail(sc) ==
    IF ~sc.err.isNil
    THEN [str |-> <<>>, err |-> Wrap("failed to get server version", sc.err)]
    ELSE IF sc.resp.ExitCode # 0
    THEN [str |-> <<>>,
          err |-> [NewError("failed to get server version")
                       EXCEPT !.text = sc.resp.StdErr]]
    ELSE [str |-> sc.resp.ServerVersion, err |-> NilErr]

\* the rule that lets a higher major version pass
VersionMismatch_LowerOnly(intMajor, intMinor, minMajor, minMinor) ==
    \/ intMajor < minMajor
    \/ intMajor = minMajor /\ intMinor # minMinor

\* the compatibility rule: TRUE when the server version is a mismatch
VersionMismatch(intMajor, intMinor, minMajor, minMinor) ==
    \/ intMajor # minMajor
    \/ intMajor = minMajor /\ intMinor # minMinor

\* a version check that reads a missing minor component as a mismatch
\* instead of indexing versionParts out of range
CheckServerVersionTail_NoPanic(gsv, minMajor, minMinor) ==
    IF ~gsv.err.isNil
    THEN [panic |-> FALSE, err |-> Wrap("failed to get server version", gsv.err)]
    ELSE IF gsv.str = <<>>
    THEN [panic |-> FALSE, err |-> NewError("server version is empty")]
    ELSE
      LET parts        == Split(gsv.str, "-")
          versionParts == Split(parts[1], ".")
          major        == Atoi(versionParts[1])
      IN  IF ~major.ok
          THEN [panic |-> FALSE,
                err |-> Wrap("failed to parse major version",
                             NewError("strconv.Atoi: invalid syntax"))]
          ELSE IF Len(versionParts) < 2
          THEN [panic |-> FALSE,
                err |-> NewErrVersionMismatch(
                            minMajor, minMinor, Join(versionParts, "."))]
          ELSE
            LET minor == Atoi(versionParts[2])
            IN  IF ~minor.ok
                THEN [panic |-> FALSE,
                      err |-> Wrap("failed to parse minor version",
                                   NewError("strconv.Atoi: invalid syntax"))]
                ELSE IF VersionMismatch(major.val, minor.val, minMajor, minMinor)
                THEN [panic |-> FALSE,
                      err |-> NewErrVersionMismatch(
                                  minMajor, minMinor, Join(versionParts, "."))]
                ELSE [panic |-> FALSE, err |-> NilErr]

\* CheckServerVersion after GetServerVersion has returned gsv
CheckServerVersionTail(gsv, minMajor, minMinor) ==
    IF ~gsv.err.isNil
    THEN [panic |-> FALSE, err |-> Wrap("failed to get server version", gsv.err)]
    ELSE IF gsv.str = <<>>
    THEN [panic |-> FALSE, err |-> NewError("server version is empty")]
    ELSE
      LET parts        == Split(gsv.str, "-")
          versionParts == Split(parts[1], ".")
          major        == Atoi(versionParts[1])
      IN  IF ~major.ok
          THEN [panic |-> FALSE,
                err |-> Wrap("failed to parse major version",
                             NewError("strconv.Atoi: invalid syntax"))]
          ELSE IF Len(versionParts) < 2
          THEN \* versionParts[1] in Go: index out of range
               [panic |-> TRUE, err |-> NilErr]
          ELSE
            LET minor == Atoi(versionParts[2])
            IN  IF ~minor.ok
                THEN [panic |-> FALSE,
                      err |-> Wrap("failed to parse minor version",
                                   NewError("strconv.Atoi: invalid syntax"))]
                ELSE IF VersionMismatch(major.val, minor.val, minMajor, minMinor)
                THEN [panic |-> FALSE,
                      err |-> NewErrVersionMismatch(
                                  minMajor, minMinor, Join(versionParts, "."))]
                ELSE [panic |-> FALSE, err |-> NilErr]

\* ------------------------------------- the workspace builder: pure parts

ValidDirections == {"left", "down", "up", "right"}

\* the count that forgets the patterns
ModesSet_NoPatterns(args) ==
    (IF args.Direction # "" THEN 1 ELSE 0)
    + (IF args.Order # "" THEN 1 ELSE 0)

\* modesSet of MoveWorkspaceToMonitor
ModesSet(args) ==
    (IF args.Direction # "" THEN 1 ELSE 0)
    + (IF args.Order # "" THEN 1 ELSE 0)
    + (IF Len(args.Patterns) > 0 THEN 1 ELSE 0)

\* the validation of MoveWorkspaceToMonitor: the error it returns before
\* anything is built, or NilErr
MoveWorkspaceValidate(args) ==
    IF ModesSet(args) = 0
    THEN NewError("must specify exactly one of: Direction, Order, or Patterns")
    ELSE IF ModesSet(args) > 1
    THEN NewError("cannot specify multiple modes; must specify exactly one of: Direction, Order, or Patterns")
    ELSE IF args.Direction # "" /\ args.Direction \notin ValidDirections
    THEN [NewError("invalid direction, must be one of: left, down, up, right")
              EXCEPT !.text = args.Direction]
    ELSE IF args.Order # "" /\ args.Order # "next" /\ args.Order # "prev"
    THEN [NewError("invalid order, must be one of: next, prev")
              EXCEPT !.text = args.Order]
    ELSE NilErr

\* cmdArgs with the flags after the positional part
MoveWorkspaceCmdArgs_FlagsLast(args, opts) ==
    (IF args.Direction # "" THEN <<args.Direction>>
     ELSE IF args.Order # "" THEN <<args.Order>>
     ELSE IF Len(args.Patterns) > 0 THEN args.Patterns
     ELSE <<>>)
    \o (IF opts.Workspace # <<>> THEN <<"--workspace", opts.Workspace[1]>> ELSE <<>>)
    \o (IF opts.WrapAround THEN <<"--wrap-around">> ELSE <<>>)

\* cmdArgs of MoveWorkspaceToMonitor; opts.Workspace is a *string: <<>> is
\* nil, <<w>> points to w
MoveWorkspaceCmdArgs(args, opts) ==
    (IF opts.Workspace # <<>> THEN <<"--workspace", opts.Workspace[1]>> ELSE <<>>)
    \o (IF opts.WrapAround THEN <<"--wrap-around">> ELSE <<>>)
    \o (IF args.Direction # "" THEN <<args.Direction>>
        ELSE IF args.Order # "" THEN <<args.Order>>
        ELSE IF Len(args.Patterns) > 0 THEN args.Patterns
        ELSE <<>>)

\* MoveWorkspaceToMonitor after SendCommand has returned sc
MoveWorkspaceTail(sc) ==
    IF ~sc.err.isNil THEN sc.err
    ELSE IF sc.resp.ExitCode # 0
    THEN [NewError("failed to move workspace to monitor")
              EXCEPT !.text = sc.resp.StdErr]
    ELSE NilErr

\* ---------------------------------------------------------------- set-focus

\* fmt.Sprintf("%d", n)
Itoa(n) == ToString(n)

\* fmt.Errorf of a message with a formatted value in it
Errorf(msg, value) == [NewError(msg) EXCEPT !.text = value]

\* count of SetFocusWithOpts: the focus methods that are set; a pointer is
\* <<>> when nil and <<v>> when it points to v
\* the count that forgets DFSIndex
FocusCount_NoIndex(args) ==
    (IF args.WindowID # <<>> THEN 1 ELSE 0)
    + (IF args.Direction # <<>> THEN 1 ELSE 0)
    + (IF args.DFSDirection # <<>> THEN 1 ELSE 0)

\* count := 0; count++ for each of the four that is not nil
FocusCount(args) ==
    (IF args.WindowID # <<>> THEN 1 ELSE 0)
    + (IF args.Direction # <<>> THEN 1 ELSE 0)
    + (IF args.DFSDirection # <<>> THEN 1 ELSE 0)
    + (IF args.DFSIndex # <<>> THEN 1 ELSE 0)

\* the validation of SetFocusWithOpts
SetFocusValidate(args) ==
    IF FocusCount(args) = 0
    THEN NewError("exactly one of WindowID, Direction, DFSDirection, or DFSIndex must be set")
    ELSE IF FocusCount(args) > 1
    THEN NewError("only one of WindowID, Direction, DFSDirection, or DFSIndex can be set")
    ELSE NilErr

\* cmdArgs of SetFocusWithOpts before the optional flags
SetFocusModeArgs(args) ==
    IF args.WindowID # <<>> THEN <<"--window-id", Itoa(args.WindowID[1])>>
    ELSE IF args.Direction # <<>> THEN <<args.Direction[1]>>
    ELSE IF args.DFSDirection # <<>> THEN <<args.DFSDirection[1]>>
    ELSE IF args.DFSIndex # <<>> THEN <<"--dfs-index", Itoa(args.DFSIndex[1])>>
    ELSE <<>>

\* errorMsg of SetFocusWithOpts: the message and the value formatted into it
SetFocusErrorMsg(args) ==
    IF args.WindowID # <<>>
    THEN <<"failed to focus window with ID", Itoa(args.WindowID[1])>>
    ELSE IF args.Direction # <<>>
    THEN <<"failed to focus window in direction", args.Direction[1]>>
    ELSE IF args.DFSDirection # <<>>
    THEN <<"failed to focus window using DFS direction", args.DFSDirection[1]>>
    ELSE IF args.DFSIndex # <<>>
    THEN <<"failed to focus window with DFS index", Itoa(args.DFSIndex[1])>>
    ELSE <<"", "">>

\* the optional flags of SetFocusWithOpts
SetFocusOptArgs(args, opts) ==
    (IF opts.IgnoreFloating THEN <<"--ignore-floating">> ELSE <<>>)
    \o (IF opts.Boundaries # <<>>
           /\ (args.Direction # <<>> \/ args.DFSDirection # <<>>)
        THEN <<"--boundaries", opts.Boundaries[1]>> ELSE <<>>)
    \o (IF opts.BoundariesAction # <<>>
           /\ (args.Direction # <<>> \/ args.DFSDirection # <<>>)
        THEN <<"--boundaries-action", opts.BoundariesAction[1]>> ELSE <<>>)

SetFocusCmdArgs(args, opts) == SetFocusModeArgs(args) \o SetFocusOptArgs(args, opts)

\* what a focus function returns after SendCommand has returned sc: the
\* transport's error, or errorMsg with the daemon's stderr
FocusTail(errorMsg, sc) ==
    IF ~sc.err.isNil THEN sc.err
    ELSE IF sc.resp.ExitCode # 0
    THEN [NewError(errorMsg[1]) EXCEPT !.data = <<errorMsg[2]>>,
                                       !.text = sc.resp.StdErr]
    ELSE NilErr

\* the flags of SetFocusByDirection and SetFocusByDFS
FocusFlags(opt) ==
    (IF opt.IgnoreFloating THEN <<"--ignore-floating">> ELSE <<>>)
    \o (IF opt.Boundaries # <<>> THEN <<"--boundaries", opt.Boundaries[1]>> ELSE <<>>)
    \o (IF opt.BoundariesAction # <<>>
        THEN <<"--boundaries-action", opt.BoundariesAction[1]>> ELSE <<>>)

\* cmdArgs of SetFocusByWindowID
SetFocusByWindowIDCmdArgs(windowID, opt) ==
    <<"--window-id", Itoa(windowID)>>
    \o (IF opt.IgnoreFloating THEN <<"--ignore-floating">> ELSE <<>>)

\* SetFocusByDirection that takes any direction
SetFocusByDirectionValidate_Any(direction) == NilErr

\* the validation of SetFocusByDirection
SetFocusByDirectionValidate(direction) ==
    IF direction \notin ValidDirections
    THEN Errorf("invalid direction, must be one of: left, down, up, right", direction)
    ELSE NilErr

\* the validation of SetFocusByDFS
SetFocusByDFSValidate(direction) ==
    IF direction # "dfs-next" /\ direction # "dfs-prev"
    THEN Errorf("invalid DFS direction, must be one of: dfs-next, dfs-prev", direction)
    ELSE NilErr

\* cmdArgs of SetFocusByDirection and of SetFocusByDFS
SetFocusByDirectionCmdArgs(direction, opt) == <<direction>> \o FocusFlags(opt)

\* cmdArgs of SetFocusByDFSIndex
SetFocusByDFSIndexCmdArgs(dfsIndex) == <<"--dfs-index", Itoa(dfsIndex)>>

\* ------------------------------------------------- move-node-to-workspace

\* MoveWindowToWorkspaceWithOpts that does not look at the options
MoveWindowValidate_None(opts) == NilErr

\* if opts.Stdin && opts.NoStdin { return error }
MoveWindowValidate(opts) ==
    IF opts.Stdin /\ opts.NoStdin
    THEN NewError("cannot specify both --stdin and --no-stdin options")
    ELSE NilErr

\* cmdArgs with --wrap-around put before --fail-if-noop
MoveWindowCmdArgs_Swapped(args, opts) ==
    <<args.WorkspaceName>>
    \o (IF opts.WindowID # <<>> THEN <<"--window-id", Itoa(opts.WindowID[1])>> ELSE <<>>)
    \o (IF opts.FocusFollowsWindow THEN <<"--focus-follows-window">> ELSE <<>>)
    \o (IF opts.WrapAround THEN <<"--wrap-around">> ELSE <<>>)
    \o (IF opts.FailIfNoop THEN <<"--fail-if-noop">> ELSE <<>>)
    \o (IF opts.Stdin THEN <<"--stdin">> ELSE <<>>)
    \o (IF opts.NoStdin THEN <<"--no-stdin">> ELSE <<>>)

\* cmdArgs of MoveWindowToWorkspaceWithOpts
MoveWindowCmdArgs(args, opts) ==
    <<args.WorkspaceName>>
    \o (IF opts.WindowID # <<>> THEN <<"--window-id", Itoa(opts.WindowID[1])>> ELSE <<>>)
    \o (IF opts.FocusFollowsWindow THEN <<"--focus-follows-window">> ELSE <<>>)
    \o (IF opts.FailIfNoop THEN <<"--fail-if-noop">> ELSE <<>>)
    \o (IF opts.WrapAround THEN <<"--wrap-around">> ELSE <<>>)
    \o (IF opts.Stdin THEN <<"--stdin">> ELSE <<>>)
    \o (IF opts.NoStdin THEN <<"--no-stdin">> ELSE <<>>)

\* MoveWindowToWorkspaceWithOpts after SendCommand has returned sc
MoveWindowTail(sc) ==
    IF ~sc.err.isNil THEN sc.err
    ELSE IF sc.resp.ExitCode # 0
    THEN Errorf("failed to move window to workspace", sc.resp.StdErr)
    ELSE NilErr

\* ------------------------------------------------------------------ layout

\* SetLayout that takes an empty list
SetLayoutValidate_Any(layouts) == NilErr

\* if len(layouts) == 0 { return error }
SetLayoutValidate(layouts) ==
    IF Len(layouts) = 0 THEN NewError("at least one layout must be provided")
    ELSE NilErr

\* cmdArgs of SetLayout and of SetLayoutWithOpts
SetLayoutCmdArgs(layouts, opt) ==
    layouts
    \o (IF opt.WindowID # <<>> THEN <<"--window-id", Itoa(opt.WindowID[1])>> ELSE <<>>)

\* layout.SetLayout after SendCommand has returned sc: the transport's error
\* is wrapped, fmt.Errorf("failed to set layout(s) %v: %w", layouts, err)
SetLayoutTail(sc) ==
    IF ~sc.err.isNil THEN Wrap("failed to set layout(s)", sc.err)
    ELSE IF sc.resp.ExitCode # 0
    THEN Errorf("failed to set layout(s)", sc.resp.StdErr)
    ELSE NilErr

\* windows.SetLayoutWithOpts after SendCommand has returned sc: the response
\* is not looked at
SetLayoutWithOptsTail(sc) ==
    IF ~sc.err.isNil THEN Wrap("failed to set layout(s)", sc.err)
    ELSE NilErr

\* ----------------------------------------------------------------- queries

\* json.Unmarshal([]byte(response.StdOut), &slice) for the payloads the
\* daemon is given here: arrays of none, one and two objects, null, and text
\* that is not JSON
ParseArray(stdout) ==
    CASE stdout = "[]" -> [ok |-> TRUE, items |-> <<>>]
      [] stdout = "null" -> [ok |-> TRUE, items |-> <<>>]
      [] stdout = "[{1}]" -> [ok |-> TRUE, items |-> <<[id |-> 1]>>]
      [] stdout = "[{1},{2}]" -> [ok |-> TRUE, items |-> <<[id |-> 1], [id |-> 2]>>]
      [] stdout = "[{2},{1}]" -> [ok |-> TRUE, items |-> <<[id |-> 2], [id |-> 1]>>]
      [] OTHER -> [ok |-> FALSE, items |-> <<>>]

\* the error for a payload that json.Unmarshal refuses, wrapped in msg
\* unless msg is empty
UnmarshalErr(msg) ==
    IF msg = "" THEN NewError("invalid character")
    ELSE Wrap(msg, NewError("invalid character"))

\* a query that returns the last element
FocusedTail_Last(sc, unmarshalMsg, emptyMsg) ==
    LET parsed == ParseArray(sc.resp.StdOut)
    IN  IF ~sc.err.isNil THEN [rec |-> <<>>, err |-> sc.err]
        ELSE IF ~parsed.ok
        THEN [rec |-> <<>>, err |-> UnmarshalErr(unmarshalMsg)]
        ELSE IF Len(parsed.items) = 0 THEN [rec |-> <<>>, err |-> NewError(emptyMsg)]
        ELSE [rec |-> <<parsed.items[Len(parsed.items)]>>, err |-> NilErr]

\* GetFocusedWindow and GetFocusedWorkspace after SendCommand has returned
\* sc: the transport's error, the decoding error, the error for an empty
\* array, or a pointer to the first element
FocusedTail(sc, unmarshalMsg, emptyMsg) ==
    LET parsed == ParseArray(sc.resp.StdOut)
    IN  IF ~sc.err.isNil THEN [rec |-> <<>>, err |-> sc.err]
        ELSE IF ~parsed.ok
        THEN [rec |-> <<>>, err |-> UnmarshalErr(unmarshalMsg)]
        ELSE IF Len(parsed.items) = 0 THEN [rec |-> <<>>, err |-> NewError(emptyMsg)]
        ELSE [rec |-> <<parsed.items[1]>>, err |-> NilErr]

GetFocusedWindowTail(sc) ==
    FocusedTail(sc, "failed to unmarshal windows", "no windows focused found")

\* GetFocusedWorkspace returns json.Unmarshal's error as it is
GetFocusedWorkspaceTail(sc) ==
    FocusedTail(sc, "", "no workspace focused found")

\* ---------------------------------------------------------- the connector

\* client.CheckServerVersion(serverVersion), the method that takes the
\* version string: an empty or unparsable version is an error, a major
\* version above the required one is a mismatch
CheckServerVersionOf(serverVersion, minMajor, minMinor) ==
    IF serverVersion = <<>> THEN NewError("server version is empty")
    ELSE
      LET parts        == Split(serverVersion, "-")
          versionParts == Split(parts[1], ".")
          major        == Atoi(versionParts[1])
      IN  IF ~major.ok
          THEN Wrap("failed to parse major version",
                    NewError("strconv.Atoi: invalid syntax"))
          ELSE IF major.val > minMajor
          THEN NewErrVersionMismatch(minMajor, minMinor, Join(versionParts, "."))
          ELSE NilErr

\* the pointer to the dialed connection
TheClient == <<"client">>

\* a Connect that returns no connection when the version check fails
ConnectTail_NilOnMismatch(sc, validate, minMajor, minMinor) ==
    LET check == CheckServerVersionOf(sc.resp.ServerVersion, minMajor, minMinor)
    IN  IF ~sc.err.isNil
        THEN [client |-> <<>>, err |-> Wrap("failed communicate with server", sc.err)]
        ELSE IF validate /\ ~check.isNil
        THEN [client |-> <<>>, err |-> check]
        ELSE [client |-> TheClient, err |-> NilErr]

\* AeroSpaceCustomConnector.Connect after the probe SendCommand has returned
\* sc: <<>> is a nil connection
ConnectTail(sc, validate, minMajor, minMinor) ==
    LET check == CheckServerVersionOf(sc.resp.ServerVersion, minMajor, minMinor)
    IN  IF ~sc.err.isNil
        THEN [client |-> <<>>, err |-> Wrap("failed communicate with server", sc.err)]
        ELSE IF validate /\ ~check.isNil
        THEN [client |-> TheClient, err |-> check]
        ELSE [client |-> TheClient, err |-> NilErr]

\* NewCustomClient after connector.Connect() has returned connect: the
\* AeroSpaceWM around the connection, or nil and the wrapped error
NewCustomClientTail(connect) ==
    IF ~connect.err.isNil
    THEN [client |-> <<>>, err |-> Wrap("failed to connect to socket", connect.err)]
    ELSE [client |-> connect.client, err |-> NilErr]

ConnectOps == {"Connect", "NewCustomClient"}

\* ------------------------------------------------- after SendCommand

BuilderOps ==
    {"SetFocusWithOpts", "SetFocusByWindowID", "SetFocusByDirection",
     "SetFocusByDFS", "SetFocusByDFSIndex", "MoveWindowToWorkspaceWithOpts",
     "SetLayout", "SetLayoutWithOpts"}

QueryOps == {"GetFocusedWindow", "GetFocusedWorkspace"}

\* the error the builder o, called with in, returns after SendCommand has
\* returned sc
BuilderTail(o, in, sc) ==
    CASE o = "SetFocusWithOpts" -> FocusTail(SetFocusErrorMsg(in.args), sc)
      [] o = "SetFocusByWindowID" ->
            FocusTail(<<"failed to focus window with ID", Itoa(in.args.value)>>, sc)
      [] o = "SetFocusByDirection" ->
            FocusTail(<<"failed to focus window in direction", in.args.value>>, sc)
      [] o = "SetFocusByDFS" ->
            FocusTail(<<"failed to focus window using DFS direction", in.args.value>>, sc)
      [] o = "SetFocusByDFSIndex" ->
            FocusTail(<<"failed to focus window with DFS index", Itoa(in.args.value)>>, sc)
      [] o = "MoveWindowToWorkspaceWithOpts" -> MoveWindowTail(sc)
      [] o = "SetLayout" -> SetLayoutTail(sc)
      [] o = "SetLayoutWithOpts" -> SetLayoutWithOptsTail(sc)

\* what the query o returns after SendCommand has returned sc
QueryTail(o, sc) ==
    IF o = "GetFocusedWindow" THEN GetFocusedWindowTail(sc)
    ELSE GetFocusedWorkspaceTail(sc)

\* ------------------------------------------------------------------ state

VARIABLES
    Conn,             \* the Conn field: "nil" or "conn" (a dialed net.Conn)
    socketPath,       \* the socketPath field
    MinMajorVersion,  \* the version requirement
    MinMinorVersion,
    mu,               \* the mutex: 0 when free, else the goroutine holding it
    closed,           \* Close has been called on the stream
    peerClosed,       \* the daemon has closed its end
    requests,         \* requests written to the stream, not yet answered
    nReq,             \* number of requests written so far
    nextId,           \* number of replies the daemon has produced so far
    pending,          \* reply bytes the daemon has not delivered yet
    chunks,           \* deliveries made of the reply at the head of pending
    inbuf,            \* bytes delivered to the socket and not yet read
    closeCalls,       \* number of Close calls made on the stream
    closeReturned,    \* a CloseConnection call has returned
    pc,               \* where each goroutine is
    op,               \* the exported function each goroutine is in
    cmd,              \* the argument vector of the goroutine's SendCommand
    input,            \* the arguments of the goroutine's builder call
    responseData,     \* SendCommand's accumulation buffer
    result,           \* what the goroutine's last call returned
    wrote,            \* the current call has called Write
    reads,            \* what each Read of the current call returned
    got,              \* the bytes the Reads of the current call returned
    sends,            \* SendCommand invocations of the current call
    calls,            \* calls the goroutine has completed
    reqId,            \* the number of the request the current call wrote
    afterClose,       \* the current call began after a CloseConnection returned
    limit,            \* calls each goroutine will make
    SocketPath,       \* the SocketPath field of the custom connector
    ValidateVersion,  \* the ValidateVersion field of the custom connector
    defaultConnector, \* the package variable defaultConnector
    windowsService,   \* the windowsService field of the AeroSpaceWM: 0 is nil
    workspacesService,\* the workspacesService field of the AeroSpaceWM
    services,         \* service instances that NewService has created
    loaded            \* the service pointer each goroutine holds in a register

connVars   == <<Conn, socketPath, MinMajorVersion, MinMinorVersion>>
daemonVars == <<peerClosed, requests, nReq, nextId, pending, chunks, inbuf>>
closeVars  == <<closed, closeCalls, closeReturned>>
callVars   == <<op, cmd, input, sends, afterClose, limit>>
ioVars     == <<responseData, wrote, reads, got, reqId>>
retVars    == <<pc, result, calls>>
clientVars == <<SocketPath, ValidateVersion, defaultConnector, windowsService,
                workspacesService, services, loaded>>
vars == <<connVars, clientVars, mu, daemonVars, closeVars, callVars, ioVars,
          retVars>>

NoCmd == [command |-> "", args |-> <<>>]

NoInput ==
    [args |-> [Direction |-> "", Order |-> "", Patterns |-> <<>>],
     opts |-> [Workspace |-> <<>>, WrapAround |-> FALSE]]

\* rec is the record a query returns by pointer (<<>> is nil); sc is the
\* error that SendCommand returned to the function, when it called it
NoResult ==
    [done |-> FALSE, op |-> "none", resp |-> NilResp, err |-> NilErr,
     str |-> <<>>, panic |-> FALSE, rec |-> <<>>, sc |-> NilErr]

\* the fields NewAeroSpaceSocketConnection sets besides Conn, for the given
\* set of <<major, minor>> requirements, an idle daemon and idle goroutines
InitStream(required, lim) ==
    /\ socketPath = "/tmp/aerospace.sock"
    /\ \E r \in required : MinMajorVersion = r[1] /\ MinMinorVersion = r[2]
    /\ mu = 0
    /\ closed = FALSE
    /\ peerClosed = FALSE
    /\ requests = <<>>
    /\ nReq = 0
    /\ nextId = 0
    /\ pending = <<>>
    /\ chunks = 0
    /\ inbuf = <<>>
    /\ closeCalls = 0
    /\ closeReturned = FALSE
    /\ pc = [g \in Goroutines |-> "idle"]
    /\ op = [g \in Goroutines |-> "none"]
    /\ cmd = [g \in Goroutines |-> NoCmd]
    /\ input = [g \in Goroutines |-> NoInput]
    /\ responseData = [g \in Goroutines |-> <<>>]
    /\ result = [g \in Goroutines |-> NoResult]
    /\ wrote = [g \in Goroutines |-> FALSE]
    /\ reads = [g \in Goroutines |-> <<>>]
    /\ got = [g \in Goroutines |-> <<>>]
    /\ sends = [g \in Goroutines |-> 0]
    /\ calls = [g \in Goroutines |-> 0]
    /\ reqId = [g \in Goroutines |-> 0]
    /\ afterClose = [g \in Goroutines |-> FALSE]
    /\ limit = lim

\* the package variable as it is declared and an AeroSpaceWM as NewClient
\* leaves it
InitClient ==
    /\ defaultConnector = "default"
    /\ windowsService = 0
    /\ workspacesService = 0
    /\ services = 0
    /\ loaded = [g \in Goroutines |-> 0]

\* the connection as NewAeroSpaceSocketConnection or a struct literal leaves
\* it, for the given set of <<major, minor>> requirements
InitWith(required, lim) ==
    /\ Conn \in {"nil", "conn"}
    /\ SocketPath = "/tmp/aerospace.sock"
    /\ ValidateVersion = FALSE
    /\ InitClient
    /\ InitStream(required, lim)

\* ------------------------------------------------------- calls and returns

\* goroutine g enters the exported function o, at the place where.  A call
\* that builds its input record is written as a conjunction, which makes the
\* record a part of the step TLC evaluates and not a value its workers share.
Begin(g, o, where, args, in) ==
    /\ pc[g] = "idle"
    /\ calls[g] < limit
    /\ pc' = [pc EXCEPT ![g] = where]
    /\ op' = [op EXCEPT ![g] = o]
    /\ cmd' = [cmd EXCEPT ![g] = args]
    /\ input' = [input EXCEPT ![g] = in]
    /\ result' = [result EXCEPT ![g] = NoResult]
    /\ responseData' = [responseData EXCEPT ![g] = <<>>]
    /\ wrote' = [wrote EXCEPT ![g] = FALSE]
    /\ reads' = [reads EXCEPT ![g] = <<>>]
    /\ got' = [got EXCEPT ![g] = <<>>]
    /\ sends' = [sends EXCEPT ![g] = IF where = "sc_lock" THEN 1 ELSE 0]
    /\ reqId' = [reqId EXCEPT ![g] = 0]
    /\ afterClose' = [afterClose EXCEPT ![g] = closeReturned]
    /\ UNCHANGED <<connVars, clientVars, mu, daemonVars, closeVars, calls, limit>>

\* the exported function o returns r
Return(g, o, r) ==
    /\ result' = [result EXCEPT ![g] =
                     [done |-> TRUE, op |-> o, resp |-> r.resp, err |-> r.err,
                      str |-> r.str, panic |-> r.panic,
                      rec |-> IF "rec" \in DOMAIN r THEN r.rec ELSE <<>>,
                      sc |-> IF "sc" \in DOMAIN r THEN r.sc ELSE NilErr]]
    /\ pc' = [pc EXCEPT ![g] = IF r.panic THEN "panicked" ELSE "idle"]
    /\ calls' = [calls EXCEPT ![g] = @ + 1]

\* what GetServerVersion's caller makes of its return value gsv
FinishGetServerVersion(o, gsv) ==
    IF o = "CheckServerVersion"
    THEN LET c == CheckServerVersionTail(gsv, MinMajorVersion, MinMinorVersion)
         IN  [resp |-> NilResp, err |-> c.err, str |-> <<>>, panic |-> c.panic]
    ELSE [resp |-> NilResp, err |-> gsv.err, str |-> gsv.str, panic |-> FALSE]

\* what SendCommand's caller makes of its return value sc
Finish(o, sc) ==
    IF o \in {"GetServerVersion", "CheckServerVersion"}
    THEN FinishGetServerVersion(o, GetServerVersionTail(sc))
    ELSE IF o = "MoveWorkspaceToMonitor"
    THEN [resp |-> NilResp, err |-> MoveWorkspaceTail(sc), str |-> <<>>,
          panic |-> FALSE]
    ELSE [resp |-> sc.resp, err |-> sc.err, str |-> <<>>, panic |-> FALSE]

\* what Connect, or NewCustomClient through it, returns after the probe
\* SendCommand has returned sc
ConnectorTail(o, sc) ==
    LET connect == ConnectTail(sc, ValidateVersion, MinMajorVersion, MinMinorVersion)
    IN  IF o = "NewCustomClient" THEN NewCustomClientTail(connect) ELSE connect

\* what the function that goroutine g is in makes of SendCommand's return
\* value sc
FinishFor(g, sc) ==
    LET r == IF op[g] \in BuilderOps
             THEN [resp |-> NilResp, err |-> BuilderTail(op[g], input[g], sc),
                   str |-> <<>>, panic |-> FALSE, rec |-> <<>>]
             ELSE IF op[g] \in ConnectOps
             THEN [resp |-> NilResp, err |-> ConnectorTail(op[g], sc).err,
                   str |-> <<>>, panic |-> FALSE,
                   rec |-> ConnectorTail(op[g], sc).client]
             ELSE IF op[g] \in QueryOps
             THEN [resp |-> NilResp, err |-> QueryTail(op[g], sc).err,
                   str |-> <<>>, panic |-> FALSE, rec |-> QueryTail(op[g], sc).rec]
             ELSE [resp |-> Finish(op[g], sc).resp, err |-> Finish(op[g], sc).err,
                   str |-> Finish(op[g], sc).str, panic |-> Finish(op[g], sc).panic,
                   rec |-> <<>>]
    IN  [resp |-> r.resp, err |-> r.err, str |-> r.str, panic |-> r.panic,
         rec |-> r.rec, sc |-> sc.err]

\* a Lock that does not wait for the holder
MuLock_NoWait(g) == mu' = g

\* c.mu.Lock(): blocks while another goroutine holds the mutex
MuLock(g) == mu = 0 /\ mu' = g

\* a return that leaves the mutex locked
MuUnlock_Keep(g) == mu' = mu

\* the deferred c.mu.Unlock()
MuUnlock(g) == mu' = 0

\* ------------------------------------------------------------ SendCommand

\* commandArgs := append([]string{command}, args...)
CommandArgs(c) == <<c.command>> \o c.args

\* responseData = buf[:n]: the buffer replaces what was read before
Accumulate_Overwrite(data, chunk) == chunk

\* responseData = append(responseData, buf[:n]...)
Accumulate(data, chunk) == AppendBytes(data, chunk)

\* the read loop ends after a read that did not fill the buffer
ShortRead(n) == n < BufSize

\* the command of the callers of SendCommand
ListWindows == [command |-> "list-windows", args |-> <<"--all", "--json">>]

Call_SendCommand(g) == Begin(g, "SendCommand", "sc_lock", ListWindows, NoInput)

\* c.mu.Lock(); defer c.mu.Unlock()
SC_Lock(g) ==
    /\ pc[g] = "sc_lock"
    /\ MuLock(g)
    /\ pc' = [pc EXCEPT ![g] = "sc_check"]
    /\ UNCHANGED <<connVars, clientVars, daemonVars, closeVars, callVars, ioVars, result, calls>>

\* SendCommand without the check of c.Conn
SC_Check_NoNilCheck(g) ==
    /\ pc[g] = "sc_check"
    /\ pc' = [pc EXCEPT ![g] = "sc_write"]
    /\ UNCHANGED <<mu, result, calls>>
    /\ UNCHANGED <<connVars, clientVars, daemonVars, closeVars, callVars, ioVars>>

\* if c.Conn == nil { return nil, "connection is not established" }
SC_Check(g) ==
    /\ pc[g] = "sc_check"
    /\ IF Conn = "nil"
       THEN /\ Return(g, op[g],
                      FinishFor(g, [resp |-> NilResp,
                                     err |-> NewError("connection is not established")]))
            /\ MuUnlock(g)
       ELSE /\ pc' = [pc EXCEPT ![g] = "sc_write"]
            /\ UNCHANGED <<mu, result, calls>>
    /\ UNCHANGED <<connVars, clientVars, daemonVars, closeVars, callVars, ioVars>>

\* _, err = c.Conn.Write(cmdBytes): fails on a closed stream and when the
\* daemon has closed its end
SC_Write(g) ==
    /\ pc[g] = "sc_write"
    /\ wrote' = [wrote EXCEPT ![g] = TRUE]
    /\ IF closed \/ peerClosed
       THEN /\ Return(g, op[g],
                      FinishFor(g, [resp |-> NilResp,
                                     err |-> Wrap("failed to send command",
                                                  NewError("write error"))]))
            /\ MuUnlock(g)
            /\ UNCHANGED <<daemonVars, responseData, reqId>>
       ELSE /\ requests' = Append(requests, [by |-> g, args |-> CommandArgs(cmd[g])])
            /\ nReq' = nReq + 1
            /\ reqId' = [reqId EXCEPT ![g] = nReq + 1]
            /\ responseData' = [responseData EXCEPT ![g] = <<>>]
            /\ pc' = [pc EXCEPT ![g] = "sc_read"]
            /\ UNCHANGED <<mu, result, calls, peerClosed, nextId, pending, chunks, inbuf>>
    /\ UNCHANGED <<connVars, clientVars, closeVars, callVars, reads, got>>

\* the error return of the read loop
ReadFails(g, code) ==
    /\ reads' = [reads EXCEPT ![g] = Append(@, code)]
    /\ Return(g, op[g],
              FinishFor(g, [resp |-> NilResp,
                             err |-> [Wrap("failed to read response",
                                           NewError("read error"))
                                          EXCEPT !.data = responseData[g]]]))
    /\ MuUnlock(g)
    /\ UNCHANGED <<connVars, clientVars, daemonVars, closeVars, callVars, responseData, wrote,
                   got, reqId>>

\* n, err := c.Conn.Read(buf): blocks until bytes have arrived or the stream
\* has ended; returns what has arrived, at most len(buf) bytes.  A read is
\* recorded in reads as its n, end of stream as 0, an error as -1.
SC_Read(g) ==
    /\ pc[g] = "sc_read"
    /\ \/ /\ Size(inbuf) > 0
          /\ LET n == Min(BufSize, Size(inbuf))
             IN  /\ responseData' = [responseData EXCEPT ![g] =
                                         Accumulate(@, TakeBytes(inbuf, n))]
                 /\ got' = [got EXCEPT ![g] = AppendBytes(@, TakeBytes(inbuf, n))]
                 /\ inbuf' = DropBytes(inbuf, n)
                 /\ reads' = [reads EXCEPT ![g] = Append(@, n)]
                 /\ pc' = [pc EXCEPT ![g] =
                              IF ShortRead(n) THEN "sc_decode" ELSE "sc_read"]
          /\ UNCHANGED <<connVars, clientVars, mu, closeVars, callVars, wrote, reqId, result, calls,
                         peerClosed, requests, nReq, nextId, pending, chunks>>
       \/ /\ Size(inbuf) = 0
          /\ peerClosed
          /\ reads' = [reads EXCEPT ![g] = Append(@, 0)]
          /\ pc' = [pc EXCEPT ![g] = "sc_decode"]
          /\ UNCHANGED <<connVars, clientVars, mu, daemonVars, closeVars, callVars, responseData,
                         wrote, got, reqId, result, calls>>

\* a Read that fails with an error other than io.EOF (the connection is reset)
SC_ReadError(g) ==
    /\ pc[g] = "sc_read"
    /\ ReadFails(g, -1)

\* json.Unmarshal and the checks of the decoded response; the deferred unlock
SC_Decode(g) ==
    /\ pc[g] = "sc_decode"
    /\ Return(g, op[g], FinishFor(g, DecodeResponse(responseData[g])))
    /\ MuUnlock(g)
    /\ UNCHANGED <<connVars, clientVars, daemonVars, closeVars, callVars, ioVars>>

\* -------------------------------------------------------- CloseConnection

Call_CloseConnection(g) == Begin(g, "CloseConnection", "cc_lock", NoCmd, NoInput)

CC_Lock(g) ==
    /\ pc[g] = "cc_lock"
    /\ MuLock(g)
    /\ pc' = [pc EXCEPT ![g] = "cc_close"]
    /\ UNCHANGED <<connVars, clientVars, daemonVars, closeVars, callVars, ioVars, result, calls>>

\* if c.Conn != nil { err := c.Conn.Close() ... }: Close on a net.Conn that
\* is already closed returns an error; the Conn field is left as it is
CC_Close(g) ==
    /\ pc[g] = "cc_close"
    /\ IF Conn # "nil"
       THEN /\ closeCalls' = closeCalls + 1
            /\ closed' = TRUE
            /\ Return(g, "CloseConnection",
                      [resp |-> NilResp, str |-> <<>>, panic |-> FALSE,
                       err |-> IF closed
                               THEN Wrap("failed to close connection",
                                         NewError("use of closed network connection"))
                               ELSE NilErr])
       ELSE /\ UNCHANGED <<closeCalls, closed>>
            /\ Return(g, "CloseConnection",
                      [resp |-> NilResp, str |-> <<>>, panic |-> FALSE, err |-> NilErr])
    /\ closeReturned' = TRUE
    /\ MuUnlock(g)
    /\ UNCHANGED <<connVars, clientVars, daemonVars, callVars, ioVars>>

\* ------------------------------------------------ Connect, NewCustomClient

Call_Connect(g) ==
    /\ Begin(g, "Connect", "cn_path", NoCmd, NoInput)

Call_NewCustomClient(g) ==
    /\ Begin(g, "NewCustomClient", "cn_path", NoCmd, NoInput)

\* what Connect returns before it has a connection, and NewCustomClient
\* through it
ConnectFailed(o, err) ==
    [resp |-> NilResp, str |-> <<>>, panic |-> FALSE, rec |-> <<>>,
     err |-> IF o = "NewCustomClient"
             THEN Wrap("failed to connect to socket", err) ELSE err]

\* if c.SocketPath == "" { return nil, "socket path cannot be empty" }, in
\* NewCustomClient: if opts.SocketPath == "", the same error, not wrapped
CN_Path(g) ==
    /\ pc[g] = "cn_path"
    /\ IF SocketPath = ""
       THEN Return(g, op[g], ConnectFailed("Connect",
                                 NewError("socket path cannot be empty")))
       ELSE /\ pc' = [pc EXCEPT ![g] = "cn_dial"]
            /\ UNCHANGED <<result, calls>>
    /\ UNCHANGED <<connVars, clientVars, mu, daemonVars, closeVars, callVars, ioVars>>

\* client, err := NewAeroSpaceSocketConnection(c.SocketPath): net.Dial fails,
\* or the connection exists; then client.SendCommand("config", "--config-path")
CN_Dial(g) ==
    /\ pc[g] = "cn_dial"
    /\ Conn = "nil"
    /\ \/ /\ Return(g, op[g],
                     ConnectFailed(op[g],
                         Wrap("failed to creat socket connection",
                              Wrap("failed to connect to socket",
                                   NewError("dial unix: connect: no such file")))))
          /\ UNCHANGED <<Conn, cmd, sends>>
       \/ /\ Conn' = "conn"
          /\ pc' = [pc EXCEPT ![g] = "sc_lock"]
          /\ cmd' = [cmd EXCEPT ![g] =
                        [command |-> "config", args |-> <<"--config-path">>]]
          /\ sends' = [sends EXCEPT ![g] = @ + 1]
          /\ UNCHANGED <<result, calls>>
    /\ UNCHANGED <<socketPath, MinMajorVersion, MinMinorVersion, clientVars, mu,
                   daemonVars, closeVars, op, input, afterClose, limit, ioVars>>

\* ------------------------------ SetDefaultConnector, GetDefaultConnector

\* the connectors a program has: the package's own and two of the caller
Connectors == {"default", "custom", "mock"}

Call_SetDefaultConnector(g, connector) ==
    /\ Begin(g, "SetDefaultConnector", "sdc", NoCmd,
             [args |-> [connector |-> connector]])

\* a setter without the assertion
SDC_NoAssert(g) ==
    /\ pc[g] = "sdc"
    /\ defaultConnector' = input[g].args.connector
    /\ Return(g, "SetDefaultConnector",
              [resp |-> NilResp, str |-> <<>>, panic |-> FALSE, err |-> NilErr])
    /\ UNCHANGED <<connVars, SocketPath, ValidateVersion, windowsService,
                   workspacesService, services, loaded, mu, daemonVars,
                   closeVars, callVars, ioVars>>

\* if connector == nil { panic(...) }; defaultConnector = connector
SDC(g) ==
    /\ pc[g] = "sdc"
    /\ IF input[g].args.connector = "nil"
       THEN /\ Return(g, "SetDefaultConnector",
                      [resp |-> NilResp, str |-> <<>>, panic |-> TRUE, err |-> NilErr])
            /\ UNCHANGED defaultConnector
       ELSE /\ defaultConnector' = input[g].args.connector
            /\ Return(g, "SetDefaultConnector",
                      [resp |-> NilResp, str |-> <<>>, panic |-> FALSE, err |-> NilErr])
    /\ UNCHANGED <<connVars, SocketPath, ValidateVersion, windowsService,
                   workspacesService, services, loaded, mu, daemonVars,
                   closeVars, callVars, ioVars>>

Call_GetDefaultConnector(g) ==
    /\ Begin(g, "GetDefaultConnector", "gdc", NoCmd, NoInput)

\* if defaultConnector == nil { panic(...) }; return defaultConnector
GDC(g) ==
    /\ pc[g] = "gdc"
    /\ Return(g, "GetDefaultConnector",
              [resp |-> NilResp, str |-> <<>>, err |-> NilErr,
               panic |-> defaultConnector = "nil",
               rec |-> IF defaultConnector = "nil" THEN <<>>
                       ELSE <<defaultConnector>>])
    /\ UNCHANGED <<connVars, clientVars, mu, daemonVars, closeVars, callVars, ioVars>>

\* ---------------------------------------------------- Windows, Workspaces

ServiceOps == {"Windows", "Workspaces"}

Call_Windows(g) ==
    /\ Begin(g, "Windows", "sv_check", NoCmd, NoInput)

Call_Workspaces(g) ==
    /\ Begin(g, "Workspaces", "sv_check", NoCmd, NoInput)

\* the field the accessor o reads and writes
ServiceField(o) == IF o = "Windows" THEN windowsService ELSE workspacesService

\* if a.windowsService == nil: the field is read without a lock
SV_Check(g) ==
    /\ pc[g] = "sv_check"
    /\ loaded' = [loaded EXCEPT ![g] = ServiceField(op[g])]
    /\ pc' = [pc EXCEPT ![g] = IF ServiceField(op[g]) = 0 THEN "sv_new"
                               ELSE "sv_return"]
    /\ UNCHANGED <<connVars, SocketPath, ValidateVersion, defaultConnector,
                   windowsService, workspacesService, services, mu, daemonVars,
                   closeVars, callVars, ioVars, result, calls>>

\* a.windowsService = windows.NewService(a.conn): a new instance is stored in
\* the field, whatever the field holds by now
SV_New(g) ==
    /\ pc[g] = "sv_new"
    /\ services' = services + 1
    /\ loaded' = [loaded EXCEPT ![g] = services + 1]
    /\ IF op[g] = "Windows"
       THEN windowsService' = services + 1 /\ UNCHANGED workspacesService
       ELSE workspacesService' = services + 1 /\ UNCHANGED windowsService
    /\ pc' = [pc EXCEPT ![g] = "sv_return"]
    /\ UNCHANGED <<connVars, SocketPath, ValidateVersion, defaultConnector, mu,
                   daemonVars, closeVars, callVars, ioVars, result, calls>>

\* return a.windowsService: the field is not synchronised, so the value
\* returned is the one the goroutine holds or the one the field holds now
SV_Return(g) ==
    /\ pc[g] = "sv_return"
    /\ \E s \in {loaded[g], ServiceField(op[g])} :
           Return(g, op[g], [resp |-> NilResp, str |-> <<>>, panic |-> FALSE,
                             err |-> NilErr, rec |-> <<s>>])
    /\ UNCHANGED <<connVars, clientVars, mu, daemonVars, closeVars, callVars, ioVars>>

\* --------------------------------- GetServerVersion, CheckServerVersion

Call_GetServerVersion(g) == Begin(g, "GetServerVersion", "gsv_check", NoCmd, NoInput)

\* CheckServerVersion begins by calling GetServerVersion
Call_CheckServerVersion(g) ==
    Begin(g, "CheckServerVersion", "gsv_check", NoCmd, NoInput)

\* if c.Conn == nil { return "", "connection is not established" }, read
\* without the mutex; else c.SendCommand("config", []string{"--config-path"})
GSV_Check(g) ==
    /\ pc[g] = "gsv_check"
    /\ IF Conn = "nil"
       THEN /\ Return(g, op[g],
                      FinishGetServerVersion(op[g],
                          [str |-> <<>>,
                           err |-> NewError("connection is not established")]))
            /\ UNCHANGED <<cmd, sends>>
       ELSE /\ pc' = [pc EXCEPT ![g] = "sc_lock"]
            /\ cmd' = [cmd EXCEPT ![g] =
                          [command |-> "config", args |-> <<"--config-path">>]]
            /\ sends' = [sends EXCEPT ![g] = @ + 1]
            /\ UNCHANGED <<result, calls>>
    /\ UNCHANGED <<connVars, clientVars, mu, daemonVars, closeVars, op, input, afterClose, limit, ioVars>>

\* -------------------------------------------------- MoveWorkspaceToMonitor

Call_MoveWorkspaceToMonitor(g, d, o, p, w, wrap) ==
    /\ Begin(g, "MoveWorkspaceToMonitor", "mw_validate", NoCmd,
             [args |-> [Direction |-> d, Order |-> o, Patterns |-> p],
              opts |-> [Workspace |-> w, WrapAround |-> wrap]])

\* the validation, then s.client.SendCommand("move-workspace-to-monitor", cmdArgs)
MW_Validate(g) ==
    /\ pc[g] = "mw_validate"
    /\ LET e == MoveWorkspaceValidate(input[g].args)
       IN  IF ~e.isNil
           THEN /\ Return(g, op[g],
                          [resp |-> NilResp, err |-> e, str |-> <<>>, panic |-> FALSE])
                /\ UNCHANGED <<cmd, sends>>
           ELSE /\ pc' = [pc EXCEPT ![g] = "sc_lock"]
                /\ cmd' = [cmd EXCEPT ![g] =
                              [command |-> "move-workspace-to-monitor",
                               args |-> MoveWorkspaceCmdArgs(input[g].args,
                                                             input[g].opts)]]
                /\ sends' = [sends EXCEPT ![g] = @ + 1]
                /\ UNCHANGED <<result, calls>>
    /\ UNCHANGED <<connVars, clientVars, mu, daemonVars, closeVars, op, input, afterClose, limit, ioVars>>

\* ------------------------------------------------------ the other builders

\* a builder after its validation: it returns the error e, or calls
\* s.client.SendCommand(command, cmdArgs)
Build(g, e, command, cmdArgs) ==
    /\ IF ~e.isNil
       THEN /\ Return(g, op[g],
                      [resp |-> NilResp, err |-> e, str |-> <<>>, panic |-> FALSE])
            /\ UNCHANGED <<cmd, sends>>
       ELSE /\ pc' = [pc EXCEPT ![g] = "sc_lock"]
            /\ cmd' = [cmd EXCEPT ![g] = [command |-> command, args |-> cmdArgs]]
            /\ sends' = [sends EXCEPT ![g] = @ + 1]
            /\ UNCHANGED <<result, calls>>
    /\ UNCHANGED <<connVars, clientVars, mu, daemonVars, closeVars, op, input, afterClose, limit, ioVars>>

\* windows.SetFocusWithOpts(args, opts)
Call_SetFocusWithOpts(g, w, d, f, i, fl, b, ba) ==
    /\ Begin(g, "SetFocusWithOpts", "sfo_build", NoCmd,
             [args |-> [WindowID |-> w, Direction |-> d, DFSDirection |-> f,
                        DFSIndex |-> i],
              opts |-> [IgnoreFloating |-> fl, Boundaries |-> b,
                        BoundariesAction |-> ba]])

SFO_Build(g) ==
    /\ pc[g] = "sfo_build"
    /\ Build(g, SetFocusValidate(input[g].args), "focus",
             SetFocusCmdArgs(input[g].args, input[g].opts))

\* focus.SetFocusByWindowID(windowID, opts...), SetFocusByDirection(direction,
\* opts...), SetFocusByDFS(direction, opts...), SetFocusByDFSIndex(dfsIndex):
\* opt is opts[0], or the zero value when no options are given
Call_SetFocusBy(g, o, where, v, fl, b, ba) ==
    Begin(g, o, where, NoCmd,
          [args |-> [value |-> v],
           opts |-> [IgnoreFloating |-> fl, Boundaries |-> b,
                     BoundariesAction |-> ba]])

Call_SetFocusByWindowID(g, v, fl, b, ba) ==
    /\ Call_SetFocusBy(g, "SetFocusByWindowID", "fw_build", v, fl, b, ba)

Call_SetFocusByDirection(g, v, fl, b, ba) ==
    /\ Call_SetFocusBy(g, "SetFocusByDirection", "fd_build", v, fl, b, ba)

Call_SetFocusByDFS(g, v, fl, b, ba) ==
    /\ Call_SetFocusBy(g, "SetFocusByDFS", "fs_build", v, fl, b, ba)

Call_SetFocusByDFSIndex(g, v) ==
    /\ Call_SetFocusBy(g, "SetFocusByDFSIndex", "fi_build", v, FALSE, <<>>, <<>>)

FW_Build(g) ==
    /\ pc[g] = "fw_build"
    /\ Build(g, NilErr, "focus",
             SetFocusByWindowIDCmdArgs(input[g].args.value, input[g].opts))

FD_Build(g) ==
    /\ pc[g] = "fd_build"
    /\ Build(g, SetFocusByDirectionValidate(input[g].args.value), "focus",
             SetFocusByDirectionCmdArgs(input[g].args.value, input[g].opts))

FS_Build(g) ==
    /\ pc[g] = "fs_build"
    /\ Build(g, SetFocusByDFSValidate(input[g].args.value), "focus",
             SetFocusByDirectionCmdArgs(input[g].args.value, input[g].opts))

FI_Build(g) ==
    /\ pc[g] = "fi_build"
    /\ Build(g, NilErr, "focus", SetFocusByDFSIndexCmdArgs(input[g].args.value))

\* workspaces.MoveWindowToWorkspaceWithOpts(args, opts)
Call_MoveWindowToWorkspaceWithOpts(g, name, w, ffw, noop, wrap, stdin, nostdin) ==
    /\ Begin(g, "MoveWindowToWorkspaceWithOpts", "mn_build", NoCmd,
             [args |-> [WorkspaceName |-> name],
              opts |-> [WindowID |-> w, FocusFollowsWindow |-> ffw,
                        FailIfNoop |-> noop, WrapAround |-> wrap,
                        Stdin |-> stdin, NoStdin |-> nostdin]])

MN_Build(g) ==
    /\ pc[g] = "mn_build"
    /\ Build(g, MoveWindowValidate(input[g].opts), "move-node-to-workspace",
             MoveWindowCmdArgs(input[g].args, input[g].opts))

\* layout.SetLayout(layouts, opts...) and windows.SetLayoutWithOpts(args, opts)
Call_SetLayout(g, layouts, w) ==
    /\ Begin(g, "SetLayout", "sl_build", NoCmd,
             [args |-> [Layouts |-> layouts], opts |-> [WindowID |-> w]])

Call_SetLayoutWithOpts(g, layouts, w) ==
    /\ Begin(g, "SetLayoutWithOpts", "sl_build", NoCmd,
             [args |-> [Layouts |-> layouts], opts |-> [WindowID |-> w]])

SL_Build(g) ==
    /\ pc[g] = "sl_build"
    /\ Build(g, SetLayoutValidate(input[g].args.Layouts), "layout",
             SetLayoutCmdArgs(input[g].args.Layouts, input[g].opts))

\* ----------------------------------------------------------------- queries

GetFocusedWindowArgs ==
    <<"--focused", "--json", "--format",
      "%{window-id} %{window-title} %{app-name} %{app-bundle-id} %{workspace}">>

GetFocusedWorkspaceArgs == <<"--focused", "--json">>

\* windows.GetFocusedWindow() and workspaces.GetFocusedWorkspace() begin
\* with their SendCommand
Call_GetFocusedWindow(g) ==
    /\ Begin(g, "GetFocusedWindow", "gw_build", NoCmd, NoInput)

Call_GetFocusedWorkspace(g) ==
    /\ Begin(g, "GetFocusedWorkspace", "gs_build", NoCmd, NoInput)

GW_Build(g) ==
    /\ pc[g] = "gw_build"
    /\ Build(g, NilErr, "list-windows", GetFocusedWindowArgs)

GS_Build(g) ==
    /\ pc[g] = "gs_build"
    /\ Build(g, NilErr, "list-workspaces", GetFocusedWorkspaceArgs)

\* -------------------------------------------------------------- the daemon

\* the daemon answers the oldest unanswered request with one envelope, a
\* JSON document of len bytes
DaemonRespond(versions, outcomes, lens) ==
    /\ ~peerClosed
    /\ Len(requests) > 0
    /\ \E v \in versions, o \in outcomes, len \in lens :
           pending' = Append(pending, [id |-> nextId + 1, lo |-> 1, hi |-> len,
                                       len |-> len, env |-> Reply(v, o)])
    /\ nextId' = nextId + 1
    /\ requests' = Tail(requests)
    /\ UNCHANGED <<connVars, clientVars, mu, closeVars, callVars, ioVars, retVars,
                   peerClosed, nReq, chunks, inbuf>>

\* the next k bytes of the reply being sent arrive at the client's socket
DaemonDeliver(sizes) ==
    /\ ~peerClosed
    /\ Len(pending) > 0
    /\ LET h    == Head(pending)
           left == h.hi - h.lo + 1
       IN  \E k \in {left} \cup {c \in sizes : c < left /\ chunks + 1 < MaxChunks} :
               /\ inbuf' = AppendSeg(inbuf, [h EXCEPT !.hi = h.lo + k - 1])
               /\ pending' = IF k = left THEN Tail(pending)
                             ELSE <<[h EXCEPT !.lo = h.lo + k]>> \o Tail(pending)
               /\ chunks' = IF k = left THEN 0 ELSE chunks + 1
    /\ UNCHANGED <<connVars, clientVars, mu, closeVars, callVars, ioVars, retVars,
                   peerClosed, requests, nReq, nextId>>

\* the daemon closes its end; what it had not sent is lost
DaemonClose ==
    /\ ~peerClosed
    /\ peerClosed' = TRUE
    /\ pending' = <<>>
    /\ requests' = <<>>
    /\ chunks' = 0
    /\ UNCHANGED <<connVars, clientVars, mu, closeVars, callVars, ioVars, retVars,
                   nReq, nextId, inbuf>>

\* --------------------------------------------------------- specifications

\* what goroutine g may do on the transport
Transport(g) ==
    \/ SC_Lock(g)
    \/ SC_Check(g)
    \/ SC_Write(g)
    \/ SC_Read(g)
    \/ SC_ReadError(g)
    \/ SC_Decode(g)

\* the requirement NewAeroSpaceSocketConnection sets
DialedRequirement == {<<1, 0>>}

\* Spec: several goroutines share one connection, as the connector dials it
\* (the requirement NewAeroSpaceSocketConnection sets) or with no stream; the
\* daemon answers with a success or a failure, short or longer than a buffer
Init == InitWith(DialedRequirement, MaxCalls)

Next ==
    \/ \E g \in Goroutines :
        \/ Call_SendCommand(g)
        \/ Call_CloseConnection(g)
        \/ Transport(g)
        \/ CC_Lock(g)
        \/ CC_Close(g)
    \/ DaemonRespond(OneVersion, OkOrFail, ShortAndLong)
    \/ DaemonDeliver(FullChunks)
    \/ DaemonClose

Spec == Init /\ [][Next]_vars

\* SpecSeq: one goroutine has the connection to itself and calls
\* SendCommand, GetServerVersion and CheckServerVersion one after the other;
\* the daemon answers with any envelope or with garbage, of any length, in
\* deliveries of any size
InitSeq == InitWith(DialedRequirement, MaxSeqCalls)

NextSeq ==
    \/ Call_SendCommand(1)
    \/ Call_GetServerVersion(1)
    \/ Call_CheckServerVersion(1)
    \/ GSV_Check(1)
    \/ Transport(1)
    \/ DaemonRespond(TwoVersions, AnyOutcome, ResponseLens)
    \/ DaemonDeliver(ChunkSizes)
    \/ DaemonClose

SpecSeq == InitSeq /\ [][NextSeq]_vars

\* the version strings of the daemon: major[.minor[.patch]][-tag hash], each
\* component numeric, not numeric or absent (<<>>); all absent is the empty
\* string
MajorTokens == {<<>>, <<"0">>, <<"1">>, <<"2">>, <<"3">>, <<"v">>}
MinorTokens == {<<>>, <<"0">>, <<"2">>, <<"1", "0">>, <<"1", "9">>, <<"2", "0">>,
                <<"2", "5">>, <<"x">>}
PatchTokens == {<<>>, <<"5">>}
TagTokens   == {<<>>, <<"-", "b", "e", "t", "a", " ", "x">>}

VersionString(ma, mi, pa, tag) ==
    ma \o (IF mi = <<>> THEN <<>>
           ELSE <<".">> \o mi \o (IF pa = <<>> THEN <<>> ELSE <<".">> \o pa))
       \o tag

VersionStrings ==
    { VersionString(ma, mi, pa, tag) :
        ma \in MajorTokens, mi \in MinorTokens, pa \in PatchTokens,
        tag \in TagTokens }

\* the version requirements of the connection
RequiredVersions == {<<0, 20>>, <<2, 10>>, <<1, 0>>}

\* SpecVersion: one goroutine calls CheckServerVersion; the daemon reports
\* any of the version strings
InitVersion == InitWith(RequiredVersions, MaxVersionCalls)

NextVersion ==
    \/ Call_CheckServerVersion(1)
    \/ GSV_Check(1)
    \/ Transport(1)
    \/ DaemonRespond(VersionStrings, OkOnly, ShortLens)
    \/ DaemonDeliver(NoChunks)
    \/ DaemonClose

SpecVersion == InitVersion /\ [][NextVersion]_vars

\* the arguments and options of MoveWorkspaceToMonitor
Directions   == {"", "left", "up", "sideways"}
Orders       == {"", "next", "last"}
PatternLists == {<<>>, <<"HDMI-1">>, <<"HDMI-1", "DP-1">>}
Workspaces   == {<<>>, <<"ws">>}

\* SpecBuilder: one goroutine calls MoveWorkspaceToMonitor with any arguments
InitBuilder == InitWith(DialedRequirement, MaxSeqCalls)

NextBuilder ==
    \/ \E d \in Directions, o \in Orders, p \in PatternLists,
          w \in Workspaces, wrap \in BOOLEAN :
           Call_MoveWorkspaceToMonitor(1, d, o, p, w, wrap)
    \/ MW_Validate(1)
    \/ Transport(1)
    \/ DaemonRespond(OneVersion, AnyOutcome, ShortLens)
    \/ DaemonDeliver(NoChunks)
    \/ DaemonClose

SpecBuilder == InitBuilder /\ [][NextBuilder]_vars

\* the arguments of the focus functions, of MoveWindowToWorkspaceWithOpts and
\* of SetLayout; a pointer is <<>> when nil
WindowIDs         == {<<>>, <<12345>>}
FocusDirections   == {<<>>, <<"left">>}
DFSDirections     == {<<>>, <<"dfs-next">>}
DFSIndexes        == {<<>>, <<0>>}
Boundaries        == {<<>>, <<"workspace">>}
BoundariesActions == {<<>>, <<"stop">>}
DirectionValues   == {"left", "right", "sideways", "dfs-next", ""}
DFSValues         == {"dfs-next", "dfs-prev", "left", ""}
IndexValues       == {0, 3}
WindowIDValues    == {12345}
WorkspaceNames    == {"ws", ""}
LayoutLists       == {<<>>, <<"floating">>, <<"floating", "tiling">>,
                      <<"tiling", "floating">>}

\* SpecBuilders: one goroutine calls the builders of the focus, workspaces
\* and layout services with any arguments; the daemon answers with any
\* envelope or with garbage
InitBuilders == InitWith(DialedRequirement, MaxBuilderCalls)

NextBuilders ==
    \/ \E w \in WindowIDs, d \in FocusDirections, f \in DFSDirections,
          i \in DFSIndexes, fl \in BOOLEAN, b \in Boundaries,
          ba \in BoundariesActions :
           Call_SetFocusWithOpts(1, w, d, f, i, fl, b, ba)
    \/ \E fl \in BOOLEAN, b \in Boundaries, ba \in BoundariesActions :
           \/ \E v \in WindowIDValues : Call_SetFocusByWindowID(1, v, fl, b, ba)
           \/ \E v \in DirectionValues : Call_SetFocusByDirection(1, v, fl, b, ba)
           \/ \E v \in DFSValues : Call_SetFocusByDFS(1, v, fl, b, ba)
    \/ \E v \in IndexValues : Call_SetFocusByDFSIndex(1, v)
    \/ \E name \in WorkspaceNames, w \in WindowIDs, ffw \in BOOLEAN,
          noop \in BOOLEAN, wrap \in BOOLEAN, stdin \in BOOLEAN,
          nostdin \in BOOLEAN :
           Call_MoveWindowToWorkspaceWithOpts(1, name, w, ffw, noop, wrap,
                                              stdin, nostdin)
    \/ \E layouts \in LayoutLists, w \in WindowIDs :
           \/ Call_SetLayout(1, layouts, w)
           \/ Call_SetLayoutWithOpts(1, layouts, w)
    \/ \E d \in Directions, o \in Orders, p \in PatternLists,
          w \in Workspaces, wrap \in BOOLEAN :
           Call_MoveWorkspaceToMonitor(1, d, o, p, w, wrap)
    \/ SFO_Build(1)
    \/ FW_Build(1)
    \/ FD_Build(1)
    \/ FS_Build(1)
    \/ FI_Build(1)
    \/ MN_Build(1)
    \/ SL_Build(1)
    \/ MW_Validate(1)
    \/ Transport(1)
    \/ DaemonRespond(OneVersion, AnyOutcome, ShortLens)
    \/ DaemonDeliver(NoChunks)
    \/ DaemonClose

SpecBuilders == InitBuilders /\ [][NextBuilders]_vars

\* SpecQuery: one goroutine calls GetFocusedWindow and GetFocusedWorkspace;
\* the daemon answers with any payload
InitQuery == InitWith(DialedRequirement, MaxSeqCalls)

NextQuery ==
    \/ Call_GetFocusedWindow(1)
    \/ Call_GetFocusedWorkspace(1)
    \/ GW_Build(1)
    \/ GS_Build(1)
    \/ Transport(1)
    \/ DaemonRespond(OneVersion, QueryOutcomes, ShortLens)
    \/ DaemonDeliver(NoChunks)
    \/ DaemonClose

SpecQuery == InitQuery /\ [][NextQuery]_vars

\* SpecLive: one goroutine calls SendCommand on a connection the daemon keeps
\* open; no Read fails.  Every step of the call that can be taken is taken
\* in the end (the goroutine is scheduled), and the daemon answers every
\* request and sends every byte of its answers.  A Read with nothing to
\* return is not a step: the goroutine is blocked in it.
InitLive == InitWith(DialedRequirement, MaxSeqCalls)

NextLive ==
    \/ Call_SendCommand(1)
    \/ SC_Lock(1)
    \/ SC_Check(1)
    \/ SC_Write(1)
    \/ SC_Read(1)
    \/ SC_Decode(1)
    \/ DaemonRespond(OneVersion, OkOrFail, ResponseLens)
    \/ DaemonDeliver(ChunkSizes)

FairLive ==
    /\ WF_vars(SC_Lock(1))
    /\ WF_vars(SC_Check(1))
    /\ WF_vars(SC_Write(1))
    /\ WF_vars(SC_Read(1))
    /\ WF_vars(SC_Decode(1))
    /\ WF_vars(DaemonRespond(OneVersion, OkOrFail, ResponseLens))
    /\ WF_vars(DaemonDeliver(ChunkSizes))

SpecLive == InitLive /\ [][NextLive]_vars /\ FairLive

\* the version strings the daemon reports to the connector: none, the
\* required one, a higher major, not a number
ConnectVersions == {<<>>, V_1_0, <<"2", ".", "1", ".", "0">>, <<"v">>}

\* SpecConnect: one goroutine calls Connect on a custom connector, or
\* NewCustomClient with the same options, for any socket path and either
\* value of ValidateVersion; dialing succeeds or fails and the daemon
\* answers the probe with any envelope or with garbage
InitConnect ==
    /\ Conn = "nil"
    /\ SocketPath \in {"", "/tmp/aerospace.sock"}
    /\ ValidateVersion \in BOOLEAN
    /\ InitClient
    /\ InitStream(DialedRequirement, MaxConnectCalls)

NextConnect ==
    \/ Call_Connect(1)
    \/ Call_NewCustomClient(1)
    \/ CN_Path(1)
    \/ CN_Dial(1)
    \/ Transport(1)
    \/ DaemonRespond(ConnectVersions, AnyOutcome, ShortAndLong)
    \/ DaemonDeliver(FullChunks)
    \/ DaemonClose

SpecConnect == InitConnect /\ [][NextConnect]_vars

\* SpecConnector: the program sets the default connector, to any connector
\* or to nil, and gets it, in any order
InitConnector == InitWith(DialedRequirement, MaxConnectorCalls)

NextConnector ==
    \/ \E connector \in Connectors \cup {"nil"} : Call_SetDefaultConnector(1, connector)
    \/ SDC(1)
    \/ Call_GetDefaultConnector(1)
    \/ GDC(1)

SpecConnector == InitConnector /\ [][NextConnector]_vars

\* SpecServices: several goroutines share one AeroSpaceWM and call its
\* service accessors
InitServices == InitWith(DialedRequirement, MaxCalls)

NextServices ==
    \E g \in Goroutines :
        \/ Call_Windows(g)
        \/ Call_Workspaces(g)
        \/ SV_Check(g)
        \/ SV_New(g)
        \/ SV_Return(g)

SpecServices == InitServices /\ [][NextServices]_vars

\* ----------------------------------------------------------------- claims

\* goroutine g has returned from a call of the exported function o
Returned(g, o) == result[g].done /\ result[g].op = o

\* the bytes the reads of g's call returned are exactly one whole reply
GotWhole(g) ==
    /\ Len(got[g]) = 1
    /\ got[g][1].lo = 1
    /\ got[g][1].hi = got[g][1].len

\* the envelope of that reply
GotEnv(g) == got[g][1].env

\* the read loop of g's call ended without an error and SendCommand decoded
\* an envelope from what it had read
Decoded(g) ==
    /\ Len(reads[g]) >= 1
    /\ \A i \in 1..Len(reads[g]) : reads[g][i] >= 0
    /\ GotWhole(g)
    /\ GotEnv(g).json

\* g's call has written its request and its read loop has not ended
InFlight(g) == pc[g] = "sc_read"

\* this step is a Write or a Read of g on the stream
IOStep(g) ==
    \/ ~wrote[g] /\ wrote'[g]
    \/ pc[g] = "sc_read" /\ Len(reads'[g]) > Len(reads[g])

\* C1: while one SendCommand call is between its Write and the end of its
\* read loop, no other goroutine performs a Write or a Read on the stream, so
\* at most one call is in flight at a time.
C1_OneInFlight ==
    [][\A g \in Goroutines :
          IOStep(g) => \A h \in Goroutines \ {g} : ~InFlight(h)]_vars

\* two goroutines are in SendCommand at once: one has read part of its reply,
\* the other waits for the mutex
C1_Witness ==
    \E g, h \in Goroutines :
        /\ g # h
        /\ pc[g] = "sc_read" /\ Len(reads[g]) >= 1
        /\ pc[h] = "sc_lock" /\ op[h] = "SendCommand"

\* every read of the sequence but the last filled the buffer
AllButLastFull(rs) == \A i \in 1..(Len(rs) - 1) : rs[i] = BufSize

\* the result of decoding a reply that arrived in one read
SingleRead(seg) == DecodeResponse(<<[seg EXCEPT !.lo = 1, !.hi = seg.len]>>)

\* C2: a reply that SendCommand received in N >= 1 reads, each but the last
\* filling the 4096-byte buffer, gives the same response or error as the same
\* bytes received in one read.
C2_ChunkedRead ==
    \A g \in Goroutines :
        ( /\ Returned(g, "SendCommand")
          /\ Len(reads[g]) >= 1
          /\ \A i \in 1..Len(reads[g]) : reads[g][i] >= 0
          /\ AllButLastFull(reads[g])
          /\ GotWhole(g) )
        => /\ result[g].resp = SingleRead(got[g][1]).resp
           /\ result[g].err = SingleRead(got[g][1]).err

\* a successful reply that took two reads, the first a full buffer
C2_Witness ==
    \E g \in Goroutines :
        /\ Returned(g, "SendCommand")
        /\ Len(reads[g]) = 2
        /\ reads[g][1] = BufSize
        /\ reads[g][2] > 0
        /\ GotWhole(g)
        /\ ~result[g].resp.isNil

\* C3: SendCommand returns a response only for an envelope with exit code 0
\* and empty stderr, and the response has the fields of that envelope; in
\* every other outcome the response is nil and the error is not.
C3_RoundTrip ==
    \A g \in Goroutines :
        Returned(g, "SendCommand")
        => /\ result[g].resp.isNil <=> ~result[g].err.isNil
           /\ ~result[g].resp.isNil
              => /\ Decoded(g)
                 /\ GotEnv(g).exitCode = 0
                 /\ GotEnv(g).stderr = ""
                 /\ result[g].resp.ServerVersion = GotEnv(g).serverVersionAndHash
                 /\ result[g].resp.StdOut = GotEnv(g).stdout
                 /\ result[g].resp.StdErr = GotEnv(g).stderr
                 /\ result[g].resp.ExitCode = GotEnv(g).exitCode

\* SendCommand has returned a response with the daemon's stdout and version
C3_Witness ==
    \E g \in Goroutines :
        /\ Returned(g, "SendCommand")
        /\ ~result[g].resp.isNil
        /\ result[g].resp.StdOut = "out"
        /\ result[g].resp.ServerVersion = V_1_0

\* C4: for an envelope with a non-zero exit code and a non-empty stderr
\* SendCommand returns the exit-code error with that code and stderr, never
\* the stderr-only error; the stderr-only error is returned only for exit
\* code 0 with a non-empty stderr.
C4_ExitCodeFirst ==
    \A g \in Goroutines :
        Returned(g, "SendCommand")
        => /\ (Decoded(g) /\ GotEnv(g).exitCode # 0 /\ GotEnv(g).stderr # "")
              => /\ Contains(result[g].err, "command failed with exit code")
                 /\ result[g].err.exitCode = GotEnv(g).exitCode
                 /\ result[g].err.text = GotEnv(g).stderr
                 /\ ~Contains(result[g].err, "command error")
           /\ Contains(result[g].err, "command error")
              => /\ Decoded(g)
                 /\ GotEnv(g).exitCode = 0 /\ GotEnv(g).stderr # ""
                 /\ result[g].err.text = GotEnv(g).stderr

\* SendCommand has returned for an envelope with exit code 1 and stderr
C4_Witness ==
    \E g \in Goroutines :
        /\ Returned(g, "SendCommand")
        /\ Decoded(g)
        /\ GotEnv(g).exitCode = 1 /\ GotEnv(g).stderr = "boom"
        /\ Contains(result[g].err, "command failed with exit code")

\* C5: a SendCommand that begins after a CloseConnection has returned fails
\* with "connection is not established" and performs no Write and no Read.
C5_SendAfterClose ==
    \A g \in Goroutines :
        (Returned(g, "SendCommand") /\ afterClose[g])
        => /\ Contains(result[g].err, "connection is not established")
           /\ ~wrote[g]
           /\ reads[g] = <<>>

\* the functions that begin by checking the stream
ChecksConn == {"SendCommand", "GetServerVersion", "CheckServerVersion"}

\* C6: on a connection whose stream is nil, SendCommand, GetServerVersion and
\* CheckServerVersion return an error that contains "connection is not
\* established" and perform no Write and no Read.
C6_NotEstablished ==
    \A g \in Goroutines :
        (Conn = "nil" /\ result[g].done /\ result[g].op \in ChecksConn)
        => /\ Contains(result[g].err, "connection is not established")
           /\ result[g].resp.isNil
           /\ ~wrote[g]
           /\ reads[g] = <<>>

\* the three functions have each returned on a connection with a nil stream:
\* the witness is the last of them, CheckServerVersion after a SendCommand
C6_Witness ==
    /\ Conn = "nil"
    /\ Returned(1, "CheckServerVersion")
    /\ calls[1] = 2
    /\ Contains(result[1].err, "failed to get server version")

\* C7: CloseConnection returns nil and touches nothing when the stream is
\* nil, and a second CloseConnection after a first that succeeded returns nil
\* and does not touch the stream again.
C7_CloseIdempotent ==
    /\ Conn = "nil" => closeCalls = 0 /\ ~closed
    /\ closeCalls <= 1
    /\ \A g \in Goroutines :
           Returned(g, "CloseConnection") => result[g].err.isNil

\* the major and minor version of a version string that has both, as
\* integers
HasMajorMinor(v) ==
    LET vp == Split(Split(v, "-")[1], ".")
    IN  Len(vp) >= 2 /\ Atoi(vp[1]).ok /\ Atoi(vp[2]).ok

MajorOf(v) == Atoi(Split(Split(v, "-")[1], ".")[1]).val
MinorOf(v) == Atoi(Split(Split(v, "-")[1], ".")[2]).val

\* CheckServerVersion has returned after the daemon reported a version with a
\* numeric major and minor in a successful reply
Checked(g) ==
    /\ Returned(g, "CheckServerVersion")
    /\ Decoded(g)
    /\ GotEnv(g).exitCode = 0
    /\ GotEnv(g).stderr = ""
    /\ HasMajorMinor(GotEnv(g).serverVersionAndHash)

\* C8: CheckServerVersion returns nil whenever the server's major equals the
\* required major and the server's minor is at least the required minor.
C8_HigherMinorPasses ==
    \A g \in Goroutines :
        ( /\ Checked(g)
          /\ MajorOf(GotEnv(g).serverVersionAndHash) = MinMajorVersion
          /\ MinorOf(GotEnv(g).serverVersionAndHash) >= MinMinorVersion )
        => result[g].err.isNil

\* C9: for a server version with a numeric major and a numeric minor
\* component, CheckServerVersion returns an error that matches ErrVersion and
\* carries the required major and minor and the server's version whenever the
\* server's major differs from the required major, or the majors are equal
\* and the server's minor is lower than the required minor.
C9_Mismatch ==
    \A g \in Goroutines :
        ( /\ Checked(g)
          /\ \/ MajorOf(GotEnv(g).serverVersionAndHash) # MinMajorVersion
             \/ /\ MajorOf(GotEnv(g).serverVersionAndHash) = MinMajorVersion
                /\ MinorOf(GotEnv(g).serverVersionAndHash) < MinMinorVersion )
        => /\ IsErrVersion(result[g].err)
           /\ result[g].err.major = MinMajorVersion
           /\ result[g].err.minor = MinMinorVersion
           /\ result[g].err.current = Split(GotEnv(g).serverVersionAndHash, "-")[1]

\* the version string has a numeric major component
HasMajor(v) == Atoi(Split(Split(v, "-")[1], ".")[1]).ok

\* C9 as stated, for every version string whose major is a number: the
\* mismatch error is returned whenever the major differs from the required
\* major, whatever follows the major.
C9_AsStated ==
    \A g \in Goroutines :
        LET v == GotEnv(g).serverVersionAndHash
        IN  ( /\ Returned(g, "CheckServerVersion")
              /\ Decoded(g)
              /\ GotEnv(g).exitCode = 0
              /\ GotEnv(g).stderr = ""
              /\ HasMajor(v)
              /\ \/ MajorOf(v) # MinMajorVersion
                 \/ HasMajorMinor(v) /\ MinorOf(v) < MinMinorVersion )
            => /\ ~result[g].panic
               /\ IsErrVersion(result[g].err)
               /\ result[g].err.major = MinMajorVersion
               /\ result[g].err.minor = MinMinorVersion

\* the daemon reported 3.10.0-beta x to a connection that requires 2.10, and
\* CheckServerVersion has returned the mismatch
C9_Witness ==
    \E g \in Goroutines :
        /\ Checked(g)
        /\ MinMajorVersion = 2 /\ MinMinorVersion = 10
        /\ MajorOf(GotEnv(g).serverVersionAndHash) = 3
        /\ MinorOf(GotEnv(g).serverVersionAndHash) = 10
        /\ IsErrVersion(result[g].err)

\* the modes that the arguments select
SelectedModes(a) ==
    {m \in {"Direction", "Order", "Patterns"} :
        \/ m = "Direction" /\ a.Direction # ""
        \/ m = "Order" /\ a.Order # ""
        \/ m = "Patterns" /\ a.Patterns # <<>>}

\* C10: MoveWorkspaceToMonitor calls SendCommand only when exactly one of
\* Direction, Order and Patterns is selected; with none it returns "must
\* specify exactly one of ...", with several "cannot specify multiple modes;
\* ...", and in both cases SendCommand is not called.
C10_ExactlyOneMode ==
    \A g \in Goroutines :
        op[g] = "MoveWorkspaceToMonitor"
        => LET n == Cardinality(SelectedModes(input[g].args))
           IN  /\ sends[g] > 0 => n = 1
               /\ wrote[g] => n = 1
               /\ (result[g].done /\ n = 0)
                  => /\ result[g].err.msgs =
                          <<"must specify exactly one of: Direction, Order, or Patterns">>
                     /\ sends[g] = 0
               /\ (result[g].done /\ n > 1)
                  => /\ result[g].err.msgs =
                          <<"cannot specify multiple modes; must specify exactly one of: Direction, Order, or Patterns">>
                     /\ sends[g] = 0

\* MoveWorkspaceToMonitor has refused a direction given together with
\* patterns, and has sent nothing
C10_Witness ==
    \E g \in Goroutines :
        /\ Returned(g, "MoveWorkspaceToMonitor")
        /\ input[g].args.Direction = "left"
        /\ input[g].args.Patterns = <<"HDMI-1">>
        /\ input[g].args.Order = ""
        /\ ~result[g].err.isNil
        /\ sends[g] = 0

\* the focus methods that the arguments of SetFocusWithOpts set
FocusMethods(a) ==
    {m \in {"WindowID", "Direction", "DFSDirection", "DFSIndex"} :
        \/ m = "WindowID" /\ a.WindowID # <<>>
        \/ m = "Direction" /\ a.Direction # <<>>
        \/ m = "DFSDirection" /\ a.DFSDirection # <<>>
        \/ m = "DFSIndex" /\ a.DFSIndex # <<>>}

\* C11: SetFocusWithOpts calls SendCommand only when exactly one of WindowID,
\* Direction, DFSDirection and DFSIndex is set, and then it calls it once;
\* with none set it returns "exactly one of ... must be set", with several
\* "only one of ... can be set", and in both cases SendCommand is not called.
C11_ExactlyOneFocus ==
    \A g \in Goroutines :
        op[g] = "SetFocusWithOpts"
        => LET n == Cardinality(FocusMethods(input[g].args))
           IN  /\ sends[g] > 0 => n = 1
               /\ wrote[g] => n = 1
               /\ (result[g].done /\ n = 1) => sends[g] = 1
               /\ (result[g].done /\ n = 0)
                  => /\ result[g].err.msgs =
                          <<"exactly one of WindowID, Direction, DFSDirection, or DFSIndex must be set">>
                     /\ sends[g] = 0
               /\ (result[g].done /\ n > 1)
                  => /\ result[g].err.msgs =
                          <<"only one of WindowID, Direction, DFSDirection, or DFSIndex can be set">>
                     /\ sends[g] = 0

\* SetFocusWithOpts has refused a window id given together with a DFS index,
\* and has sent nothing
C11_Witness ==
    \E g \in Goroutines :
        /\ Returned(g, "SetFocusWithOpts")
        /\ FocusMethods(input[g].args) = {"WindowID", "DFSIndex"}
        /\ Contains(result[g].err,
                    "only one of WindowID, Direction, DFSDirection, or DFSIndex can be set")
        /\ sends[g] = 0 /\ ~wrote[g]

\* the optional modifier flags of the focus command
ModifierFlags == {"--ignore-floating", "--boundaries", "--boundaries-action"}

\* goroutine g has called SendCommand with a focus command in window-ID mode
\* or in DFS-index mode
SentIdOrIndexFocus(g) ==
    /\ sends[g] > 0
    /\ \/ op[g] \in {"SetFocusByWindowID", "SetFocusByDFSIndex"}
       \/ /\ op[g] = "SetFocusWithOpts"
          /\ FocusMethods(input[g].args) \in {{"WindowID"}, {"DFSIndex"}}

\* C12: a focus command built in window-ID mode or in DFS-index mode has
\* none of --ignore-floating, --boundaries and --boundaries-action in its
\* argument vector, whatever the options are.
C12_NoModifiersForIds ==
    \A g \in Goroutines :
        SentIdOrIndexFocus(g)
        => \A k \in 1..Len(cmd[g].args) : cmd[g].args[k] \notin ModifierFlags

\* the builders of the four commands
Builders == BuilderOps \cup {"MoveWorkspaceToMonitor"}

\* the messages by which the errors of the builder o name its operation
OperationNames(o) ==
    CASE o = "MoveWorkspaceToMonitor" -> {"failed to move workspace to monitor"}
      [] o = "MoveWindowToWorkspaceWithOpts" -> {"failed to move window to workspace"}
      [] o \in {"SetLayout", "SetLayoutWithOpts"} -> {"failed to set layout(s)"}
      [] OTHER -> {"failed to focus window with ID",
                   "failed to focus window in direction",
                   "failed to focus window using DFS direction",
                   "failed to focus window with DFS index"}

\* C13: when the daemon answers the command of a builder with a non-zero
\* exit code, the builder returns an error whose message names the
\* operation and that embeds the daemon's stderr.
C13_ExitCodeNamesOperation ==
    \A g \in Goroutines :
        ( /\ result[g].done
          /\ op[g] \in Builders
          /\ Decoded(g)
          /\ GotEnv(g).exitCode # 0 )
        => /\ \E m \in OperationNames(op[g]) : Contains(result[g].err, m)
           /\ result[g].err.text = GotEnv(g).stderr

\* C14: an error that SendCommand returns to a builder is what the builder
\* returns to its caller: the same error, not wrapped and not replaced.
C14_TransportErrorUnchanged ==
    \A g \in Goroutines :
        ( /\ result[g].done
          /\ op[g] \in Builders
          /\ ~result[g].sc.isNil )
        => result[g].err = result[g].sc

\* C15: MoveWindowToWorkspaceWithOpts with Stdin and NoStdin both true
\* returns "cannot specify both --stdin and --no-stdin options" whatever the
\* workspace name and the other options are, and SendCommand is not called.
C15_StdinExclusive ==
    \A g \in Goroutines :
        ( /\ op[g] = "MoveWindowToWorkspaceWithOpts"
          /\ input[g].opts.Stdin /\ input[g].opts.NoStdin )
        => /\ sends[g] = 0
           /\ ~wrote[g]
           /\ pc[g] \in {"mn_build", "idle"}
           /\ result[g].done
              => result[g].err.msgs =
                     <<"cannot specify both --stdin and --no-stdin options">>

\* the call with both flags, a window id and every other option set has
\* returned the error
C15_Witness ==
    \E g \in Goroutines :
        /\ Returned(g, "MoveWindowToWorkspaceWithOpts")
        /\ input[g].opts.Stdin /\ input[g].opts.NoStdin
        /\ input[g].opts.WindowID = <<12345>>
        /\ input[g].opts.FocusFollowsWindow /\ input[g].opts.FailIfNoop
        /\ input[g].opts.WrapAround
        /\ input[g].args.WorkspaceName = "ws"
        /\ Contains(result[g].err, "cannot specify both --stdin and --no-stdin options")
        /\ sends[g] = 0

\* the error carries the message and echoes the value
Rejects(g, msg, value) ==
    /\ sends[g] = 0
    /\ ~wrote[g]
    /\ result[g].done
       => /\ result[g].err.msgs = <<msg>>
          /\ result[g].err.text = value

\* C16: MoveWorkspaceToMonitor, SetFocusByDirection and SetFocusByDFS reject
\* a direction outside left, down, up, right, an order outside next, prev and
\* a DFS token outside dfs-next, dfs-prev with an error that echoes the value,
\* without calling SendCommand; MoveWorkspaceToMonitor counts the modes
\* first, so an invalid direction together with an order gives the
\* multiple-modes error.
C16_EnumValidation ==
    \A g \in Goroutines :
        LET a == input[g].args
        IN  /\ (op[g] = "SetFocusByDirection"
                /\ a.value \notin {"left", "down", "up", "right"})
               => Rejects(g, "invalid direction, must be one of: left, down, up, right",
                          a.value)
            /\ (op[g] = "SetFocusByDFS" /\ a.value \notin {"dfs-next", "dfs-prev"})
               => Rejects(g, "invalid DFS direction, must be one of: dfs-next, dfs-prev",
                          a.value)
            /\ (op[g] = "MoveWorkspaceToMonitor" /\ SelectedModes(a) = {"Direction"}
                /\ a.Direction \notin {"left", "down", "up", "right"})
               => Rejects(g, "invalid direction, must be one of: left, down, up, right",
                          a.Direction)
            /\ (op[g] = "MoveWorkspaceToMonitor" /\ SelectedModes(a) = {"Order"}
                /\ a.Order \notin {"next", "prev"})
               => Rejects(g, "invalid order, must be one of: next, prev", a.Order)
            /\ (op[g] = "MoveWorkspaceToMonitor"
                /\ Cardinality(SelectedModes(a)) > 1)
               => Rejects(g, "cannot specify multiple modes; must specify exactly one of: Direction, Order, or Patterns",
                          "")

\* MoveWorkspaceToMonitor has returned the multiple-modes error for an
\* invalid direction given with an order
C16_Witness ==
    \E g \in Goroutines :
        /\ Returned(g, "MoveWorkspaceToMonitor")
        /\ input[g].args.Direction = "sideways"
        /\ input[g].args.Order = "next"
        /\ input[g].args.Patterns = <<>>
        /\ Contains(result[g].err,
                    "cannot specify multiple modes; must specify exactly one of: Direction, Order, or Patterns")
        /\ sends[g] = 0

\* C17: every argument vector MoveWorkspaceToMonitor sends is an optional
\* "--workspace" <name>, then an optional "--wrap-around", then the
\* positional part: the direction, or the order word, or all the patterns in
\* the order given; no flag follows the positional part.
C17_MoveWorkspaceArgsForm ==
    \A g \in Goroutines :
        (op[g] = "MoveWorkspaceToMonitor" /\ sends[g] > 0)
        => LET a == cmd[g].args
               in == input[g].args
               o == input[g].opts
               nw == IF o.Workspace # <<>> THEN 2 ELSE 0
               nf == nw + (IF o.WrapAround THEN 1 ELSE 0)
               positional == SubSeq(a, nf + 1, Len(a))
           IN  /\ cmd[g].command = "move-workspace-to-monitor"
               /\ Len(a) > nf
               /\ nw = 2 => (a[1] = "--workspace" /\ a[2] = o.Workspace[1])
               /\ o.WrapAround => a[nw + 1] = "--wrap-around"
               /\ \A k \in (nf + 1)..Len(a) : a[k] \notin {"--workspace", "--wrap-around"}
               /\ \/ in.Direction # "" /\ positional = <<in.Direction>>
                  \/ in.Order # "" /\ positional = <<in.Order>>
                  \/ Len(in.Patterns) > 0 /\ positional = in.Patterns

\* two patterns have been sent after both flags
C17_Witness ==
    \E g \in Goroutines :
        /\ op[g] = "MoveWorkspaceToMonitor"
        /\ sends[g] = 1
        /\ wrote[g]
        /\ cmd[g].args = <<"--workspace", "ws", "--wrap-around", "HDMI-1", "DP-1">>

\* the flags of MoveWindowToWorkspaceWithOpts in their fixed order
MoveWindowFlagOrder ==
    <<"--focus-follows-window", "--fail-if-noop", "--wrap-around",
      "--stdin", "--no-stdin">>

\* C18: every argument vector MoveWindowToWorkspaceWithOpts sends starts
\* with the workspace name, followed by the tokens of the options that are
\* set, in the order --window-id <id>, --focus-follows-window,
\* --fail-if-noop, --wrap-around, --stdin or --no-stdin; an option that is
\* not set adds no token and at most one of --stdin and --no-stdin is there.
C18_MoveWindowArgsOrder ==
    \A g \in Goroutines :
        (op[g] = "MoveWindowToWorkspaceWithOpts" /\ sends[g] > 0)
        => LET a == cmd[g].args
               o == input[g].opts
               IsSet(f) == CASE f = "--focus-follows-window" -> o.FocusFollowsWindow
                             [] f = "--fail-if-noop" -> o.FailIfNoop
                             [] f = "--wrap-around" -> o.WrapAround
                             [] f = "--stdin" -> o.Stdin
                             [] f = "--no-stdin" -> o.NoStdin
               nid == IF o.WindowID # <<>> THEN 2 ELSE 0
           IN  /\ cmd[g].command = "move-node-to-workspace"
               /\ Len(a) >= 1 + nid
               /\ a[1] = input[g].args.WorkspaceName
               /\ nid = 2 => (a[2] = "--window-id" /\ a[3] = "12345")
               /\ SubSeq(a, 2 + nid, Len(a)) = SelectSeq(MoveWindowFlagOrder, IsSet)
               /\ Cardinality({k \in 1..Len(a) : a[k] \in {"--stdin", "--no-stdin"}}) <= 1

\* every option but --no-stdin has been sent
C18_Witness ==
    \E g \in Goroutines :
        /\ op[g] = "MoveWindowToWorkspaceWithOpts"
        /\ sends[g] = 1
        /\ wrote[g]
        /\ cmd[g].args = <<"ws", "--window-id", "12345", "--focus-follows-window",
                           "--fail-if-noop", "--wrap-around", "--stdin">>

\* C19: SetLayout (and SetLayoutWithOpts) with an empty list of layouts
\* returns "at least one layout must be provided" and never calls
\* SendCommand; with a non-empty list it sends "layout" with the layouts in
\* the order given, followed by "--window-id" <id> exactly when the window
\* id option is set.
C19_SetLayout ==
    \A g \in Goroutines :
        op[g] \in {"SetLayout", "SetLayoutWithOpts"}
        => LET l == input[g].args.Layouts
               w == input[g].opts.WindowID
               a == cmd[g].args
           IN  /\ l = <<>>
                  => /\ sends[g] = 0
                     /\ ~wrote[g]
                     /\ result[g].done
                        => result[g].err.msgs = <<"at least one layout must be provided">>
               /\ (l # <<>> /\ pc[g] # "sl_build")
                  => /\ sends[g] = 1
                     /\ cmd[g].command = "layout"
                     /\ SubSeq(a, 1, Len(l)) = l
                     /\ w = <<>> => Len(a) = Len(l)
                     /\ w # <<>> => SubSeq(a, Len(l) + 1, Len(a)) = <<"--window-id", "12345">>

\* two layouts and a window id have been written to the connection
C19_Witness ==
    \E g \in Goroutines :
        /\ op[g] = "SetLayout"
        /\ sends[g] = 1
        /\ wrote[g]
        /\ Len(input[g].args.Layouts) = 2
        /\ cmd[g].args = input[g].args.Layouts \o <<"--window-id", "12345">>

\* the daemon's answer to the query of g was decoded and reports success
QueryAnswered(g) ==
    /\ result[g].done
    /\ op[g] \in QueryOps
    /\ Decoded(g)
    /\ GotEnv(g).exitCode = 0
    /\ GotEnv(g).stderr = ""

\* C20: GetFocusedWindow and GetFocusedWorkspace return an error and a nil
\* record when the stdout of the daemon's successful answer is the empty JSON
\* array, and the first element of the array, whatever follows it, with a
\* nil error when the array is not empty.
C20_FocusedFirstOrError ==
    \A g \in Goroutines :
        QueryAnswered(g)
        => LET out == GotEnv(g).stdout
               r == result[g]
           IN  /\ out = "[]"
                  => /\ r.rec = <<>>
                     /\ r.err.msgs =
                            <<IF op[g] = "GetFocusedWindow"
                              THEN "no windows focused found"
                              ELSE "no workspace focused found">>
               /\ out \in {"[{1}]", "[{1},{2}]"}
                  => (r.rec = <<[id |-> 1]>> /\ r.err.isNil)
               /\ out = "[{2},{1}]"
                  => (r.rec = <<[id |-> 2]>> /\ r.err.isNil)

\* the second call of the goroutine, GetFocusedWorkspace, has returned the
\* first of the two elements of the array
C20_Witness ==
    \E g \in Goroutines :
        /\ QueryAnswered(g)
        /\ op[g] = "GetFocusedWorkspace"
        /\ GotEnv(g).stdout = "[{2},{1}]"
        /\ result[g].rec = <<[id |-> 2]>>
        /\ calls[g] = 2

\* the version string has nothing but one non-empty component before its
\* first "-": no "." and so no minor component
MajorOnly(v) ==
    LET vp == Split(Split(v, "-")[1], ".")
    IN  Len(vp) = 1 /\ vp[1] # <<>>

\* CheckServerVersion of g has got the version string of a successful reply
\* and has ended, by returning or by panicking
CheckEnded(g) ==
    /\ op[g] = "CheckServerVersion"
    /\ result[g].done
    /\ Decoded(g)
    /\ GotEnv(g).exitCode = 0
    /\ GotEnv(g).stderr = ""

FailedIO(g) ==
    /\ Returned(g, "SendCommand")
    /\ \/ Contains(result[g].err, "failed to send command")
       \/ Contains(result[g].err, "failed to read response")

\* C25: a Write error or a Read error other than io.EOF inside SendCommand
\* fails that call alone: it returns a nil response and an error, the mutex
\* is free again whenever a call has ended, the stream, the socket path and the
\* version requirement stay as they were, and a SendCommand that runs later
\* on the connection goes on to its own Write.
C25_FailureIsLocal ==
    /\ [](\A g \in Goroutines :
             /\ FailedIO(g) => (result[g].resp.isNil /\ ~result[g].err.isNil)
             /\ pc[g] = "idle" => mu # g)
    /\ [][/\ connVars' = connVars
          /\ \A g \in Goroutines :
                /\ (pc[g] = "sc_check" /\ pc'[g] # "sc_check" /\ Conn # "nil")
                   => pc'[g] = "sc_write"
                /\ (pc[g] = "sc_write" /\ pc'[g] # "sc_write") => wrote'[g]]_vars

\* one goroutine's call has failed in its read loop after its Write, and
\* another goroutine's later call has written its own request and is reading
C25_Witness ==
    \E g, h \in Goroutines :
        /\ g # h
        /\ FailedIO(g)
        /\ Contains(result[g].err, "failed to read response")
        /\ pc[g] = "idle"
        /\ reqId[g] > 0
        /\ op[h] = "SendCommand"
        /\ pc[h] = "sc_read"
        /\ wrote[h]
        /\ reqId[h] > reqId[g]
        /\ mu = h

\* C26: every CheckServerVersion call on a dialed connection makes one round
\* trip of its own, "config" with "--config-path", and its verdict is the one
\* for the version the daemon reports in its reply to that request, whatever
\* earlier calls saw; the required major and minor are the same in every
\* call.
C26_FreshVersion ==
    \A g \in Goroutines :
        (Returned(g, "CheckServerVersion") /\ Conn # "nil")
        => /\ sends[g] = 1
           /\ wrote[g]
           /\ cmd[g] = [command |-> "config", args |-> <<"--config-path">>]
           /\ <<MinMajorVersion, MinMinorVersion>> \in DialedRequirement
           /\ Checked(g)
              => /\ got[g][1].id = reqId[g]
                 /\ result[g].err.isNil
                    <=> /\ MajorOf(GotEnv(g).serverVersionAndHash) = MinMajorVersion
                        /\ MinorOf(GotEnv(g).serverVersionAndHash) = MinMinorVersion

\* C27: with sequential calls on one connection and a daemon that answers
\* each request once and in order, every byte a SendCommand call has read is
\* a byte of the daemon's reply to the request that call wrote: no byte of an
\* earlier reply is taken as (part of) the response of a later call, whatever
\* the chunking and whether or not an earlier call returned an error.
C27_ReplyOfOwnRequest ==
    \A g \in Goroutines :
        Returned(g, "SendCommand")
        => \A i \in DOMAIN got[g] : got[g][i].id = reqId[g]

\* the daemon has answered the request goroutine g wrote and every byte of
\* the answer has arrived at the client, while g is in its read loop
DeliveredWhole(g) ==
    /\ pc[g] = "sc_read"
    /\ wrote[g]
    /\ nextId >= reqId[g]
    /\ \A i \in DOMAIN pending : pending[i].id > reqId[g]

\* C28: once the daemon has delivered its complete response, of whatever
\* length, SendCommand returns in the end, with the daemon neither closing
\* the stream nor sending another byte.
C28_ReturnsOnceDelivered ==
    \A g \in Goroutines : DeliveredWhole(g) ~> pc[g] = "idle"

\* C29: in every interleaving the step of CloseConnection that closes the
\* stream is taken while no SendCommand is between its Write and its last
\* Read: it comes before that call has written anything or after its read
\* loop has ended.
C29_CloseExcludesSend ==
    [][closeCalls' # closeCalls
       => \A h \in Goroutines : ~InFlight(h) /\ ~InFlight(h)']_vars

\* CloseConnection has been called and waits for the mutex while a
\* SendCommand of another goroutine has read part of its reply
C29_Witness ==
    \E g, h \in Goroutines :
        /\ g # h
        /\ pc[g] = "sc_read" /\ wrote[g] /\ Len(reads[g]) >= 1
        /\ pc[h] = "cc_lock" /\ op[h] = "CloseConnection"
        /\ ~closed

\* the probe of g's Connect was answered with a whole successful envelope
ProbeAnswered(g) ==
    /\ Decoded(g)
    /\ GotEnv(g).exitCode = 0
    /\ GotEnv(g).stderr = ""

\* C21: a Connect configured with ValidateVersion whose version check fails
\* returns the dialed connection, not nil and still open, together with the
\* error of the check, the mismatch error when the reported major is above
\* the required one; with ValidateVersion false Connect never returns a
\* version-mismatch error.
C21_MismatchKeepsConnection ==
    \A g \in Goroutines :
        Returned(g, "Connect")
        => LET v == GotEnv(g).serverVersionAndHash
           IN  /\ IsErrVersion(result[g].err) => ValidateVersion
               /\ (ValidateVersion /\ ProbeAnswered(g))
                  => /\ result[g].rec = TheClient
                     /\ Conn = "conn"
                     /\ ~closed
                     /\ (HasMajor(v) /\ MajorOf(v) > MinMajorVersion)
                        => /\ IsErrVersion(result[g].err)
                           /\ result[g].err.major = MinMajorVersion
                           /\ result[g].err.minor = MinMinorVersion
                     /\ (v = <<>> \/ ~HasMajor(v)) => ~result[g].err.isNil

\* Connect has returned the mismatch error and the connection
C21_Witness ==
    \E g \in Goroutines :
        /\ Returned(g, "Connect")
        /\ ValidateVersion
        /\ ProbeAnswered(g)
        /\ IsErrVersion(result[g].err)
        /\ result[g].rec = TheClient
        /\ ~closed

\* C30: when Connect or NewCustomClient returns an error and no client
\* after the socket has been dialed, the dialed connection has been closed.
C30_FailedConnectCloses ==
    \A g \in Goroutines :
        ( /\ result[g].done
          /\ result[g].op \in ConnectOps
          /\ ~result[g].err.isNil
          /\ result[g].rec = <<>>
          /\ Conn = "conn" )
        => closed

\* C23: the default connector is never nil: it starts as the package's
\* default connector, SetDefaultConnector(nil) panics and leaves it as it
\* was, SetDefaultConnector(c) with c not nil makes it c, and
\* GetDefaultConnector returns it as it is and never panics.
C23_DefaultConnectorNeverNil ==
    /\ defaultConnector = "default"
    /\ [](/\ defaultConnector # "nil"
          /\ \A g \in Goroutines :
                Returned(g, "GetDefaultConnector")
                => ~result[g].panic /\ result[g].rec = <<defaultConnector>>)
    /\ [][\A g \in Goroutines :
             (pc[g] = "sdc" /\ pc'[g] # "sdc")
             => IF input[g].args.connector = "nil"
                THEN /\ result'[g].panic
                     /\ defaultConnector' = defaultConnector
                ELSE /\ ~result'[g].panic
                     /\ defaultConnector' = input[g].args.connector]_vars

\* GetDefaultConnector has returned the connector that an earlier
\* SetDefaultConnector installed
C23_Witness ==
    \E g \in Goroutines :
        /\ Returned(g, "GetDefaultConnector")
        /\ result[g].rec = <<"mock">>
        /\ calls[g] >= 2

\* C24: for one AeroSpaceWM, Windows() returns the same service instance on
\* every call, and so does Workspaces(), also when the first calls are made
\* concurrently: no two calls of an accessor observe different instances.
C24_SameServiceInstance ==
    \A g, h \in Goroutines :
        \A o \in ServiceOps :
            (Returned(g, o) /\ Returned(h, o)) => result[g].rec = result[h].rec

====
